---- MODULE Spec2Model ----
(***************************************************************************)
(* Retrieval and identity-matching engine of the TurtleProject backend:    *)
(* the similarity index and its duplicate-rejecting insert, registration   *)
(* of new identities, diversity search, the geometric reranker, the        *)
(* mirror-fallback orchestrator and the startup load/rebuild logic.        *)
(*                                                                         *)
(* Encoded vectors are abstracted to one coordinate on a grid of 1e-5, so  *)
(* that squared L2 distances (what the FAISS L2 metric reports) are        *)
(* integers in units of 1e-10.                                             *)
(***************************************************************************)
EXTENDS Integers, Sequences, FiniteSets, TLC

(***************************************************************************)
(* Bounds of the model.                                                    *)
(***************************************************************************)
MaxIndexSize == 3

(***************************************************************************)
(* Program constants.                                                      *)
(***************************************************************************)
\* 1e-9 in units of 1e-10: the duplicate epsilon of add_new_turtle_image_to_index
DupEps == 10

\* The encoded vectors the model draws from (grid units of 1e-5).
Vecs == {0, 1, 3, 4, 50}

VARIABLES
    faiss_index,   \* an in-memory index object handed to add_new_turtle_image_to_index
    lastAdd,       \* the last add call: index before, vector, returned flag
    disk,          \* the persisted artifacts: vocab, index, metadata, vlad_array
    lastReg,       \* the last registration call and what it returned
    pc,            \* per thread: the position inside a registration call
    local,         \* per thread: the locals of the registration call
    mem,           \* GLOBAL_RESOURCES: the artifacts the process holds in memory
    lastSearch,    \* the last smart_search call and what it returned
    lastRerank,    \* the last rerank_results_with_spatial_verification call
    lastMatch,     \* the last search_for_matches call and what it did
    builds,        \* the number of rebuilds run so far (the generation counter)
    lastStartup,   \* the last load_or_generate_persistent_data call
    rebuild,       \* the position and the locals of a rebuild that writes its files
    lastVlad,      \* the last compute_vlad call and what it returned
    npz_files,     \* the descriptor files: what each output path holds
    lastSift,      \* the last process_image_through_SIFT call and what it returned
    clock,         \* int(time.time()): the second the wall clock shows
    review_queue,  \* the packet folders inside data/Review_Queue
    loose_images,  \* per turtle folder: the files inside its loose_images
    uploads,       \* every create_review_packet call so far: its id, approved or not
    lastReview,    \* the last call of a review-queue method and what it returned
    ref_data,      \* the ref_data folder of one turtle at one location: its images and T.npz
    processed,     \* every _process_single_turtle call so far for that turtle and location
    train,         \* train_vocabulary_incremental: the position in its loop and its locals
    upload_folder, \* the files inside UPLOAD_FOLDER, by name
    mirror_files,  \* the TEMP_MIRROR_ files inside data/Review_Queue, by upload name
    request_threads,\* per request thread: the position inside upload_photo and search_for_matches
    manager,       \* the global manager of app.py: None or the TurtleManager
    manager_ready, \* the threading.Event manager_ready: set or not
    manager_thread,\* the position of the initialize_manager thread
    upload_requests\* per request thread: the position inside upload_photo and its answer

addVars == <<faiss_index, lastAdd>>
regVars == <<disk, lastReg>>
thrVars == <<pc, local>>
memVars == <<mem>>
searchVars == <<lastSearch>>
rerankVars == <<lastRerank>>
matchVars == <<lastMatch>>
startVars == <<builds, lastStartup>>
rbVars == <<rebuild>>
featVars == <<lastVlad, npz_files, lastSift>>
reviewVars == <<clock, review_queue, loose_images, uploads, lastReview>>
refVars == <<ref_data, processed>>
trainVars == <<train>>
mirrorVars == <<upload_folder, mirror_files, request_threads>>
bootVars == <<manager, manager_ready, manager_thread, upload_requests>>

\* The folders of TurtleManager, the training loop and the upload handler.
restVars == <<reviewVars, refVars, trainVars, mirrorVars, bootVars>>

OutsideRest ==
    UNCHANGED <<addVars, regVars, thrVars, memVars, searchVars, rerankVars,
                matchVars, startVars, rbVars, featVars>>
OutsideReview == OutsideRest /\ UNCHANGED <<refVars, trainVars, mirrorVars, bootVars>>
OutsideRef == OutsideRest /\ UNCHANGED <<reviewVars, trainVars, mirrorVars, bootVars>>
OutsideTrain == OutsideRest /\ UNCHANGED <<reviewVars, refVars, mirrorVars, bootVars>>
OutsideMirror == OutsideRest /\ UNCHANGED <<reviewVars, refVars, trainVars, bootVars>>
OutsideBoot == OutsideRest /\ UNCHANGED <<reviewVars, refVars, trainVars, mirrorVars>>

vars ==
    <<faiss_index, lastAdd, disk, lastReg, pc, local, mem, lastSearch, lastRerank,
      lastMatch, builds, lastStartup, rebuild, lastVlad, npz_files, lastSift,
      clock, review_queue, loose_images, uploads, lastReview,
      ref_data, processed,
      train,
      upload_folder, mirror_files, request_threads,
      manager, manager_ready, manager_thread, upload_requests>>

\* What the actions of one part of the program leave alone.
OutsideAdd ==
    UNCHANGED <<regVars, thrVars, memVars, searchVars, rerankVars, matchVars,
                startVars, rbVars, featVars, restVars>>
OutsideRegister ==
    UNCHANGED <<addVars, thrVars, memVars, searchVars, rerankVars, matchVars,
                startVars, rbVars, featVars, restVars>>
OutsideThreads ==
    UNCHANGED <<addVars, memVars, searchVars, rerankVars, matchVars,
                startVars, rbVars, featVars, restVars>>
OutsideSearch ==
    UNCHANGED <<addVars, regVars, thrVars, memVars, rerankVars, matchVars,
                startVars, rbVars, featVars, restVars>>
OutsideRerank ==
    UNCHANGED <<addVars, regVars, thrVars, memVars, searchVars, matchVars,
                startVars, rbVars, featVars, restVars>>
OutsideMatch ==
    UNCHANGED <<addVars, regVars, thrVars, memVars, searchVars, rerankVars,
                startVars, rbVars, featVars, restVars>>
OutsideStartup ==
    UNCHANGED <<addVars, lastReg, thrVars, rerankVars, matchVars, rbVars, featVars, restVars>>

(***************************************************************************)
(* The FAISS index: a sequence of vectors, position p (0-based) is the     *)
(* element p+1.  search(q, k) returns the k nearest entries in ascending   *)
(* squared-L2 distance, padded with position -1 at the largest float.      *)
(***************************************************************************)
SqDist(a, b) == (a - b) * (a - b)

\* Stands for the float32 maximum FAISS reports beside a -1 position.
FltMax == 4 * 50 * 50 * 10000

Positions(index) == 0 .. (Len(index) - 1)

RECURSIVE NearestFirst(_, _, _)
NearestFirst(index, q, remaining) ==
    IF remaining = {} THEN <<>>
    ELSE LET best == CHOOSE p \in remaining : \A r \in remaining :
                        \/ SqDist(index[p + 1], q) < SqDist(index[r + 1], q)
                        \/ /\ SqDist(index[p + 1], q) = SqDist(index[r + 1], q)
                           /\ p <= r
         IN  <<[dist |-> SqDist(index[best + 1], q), idx |-> best]>>
                \o NearestFirst(index, q, remaining \ {best})

faiss_search_k_neighbors(index, q, k) ==
    LET found == NearestFirst(index, q, Positions(index))
    IN  IF Len(found) >= k THEN SubSeq(found, 1, k)
        ELSE found \o [i \in 1 .. (k - Len(found)) |-> [dist |-> FltMax, idx |-> -1]]

initialize_faiss_index(database_vectors) == database_vectors

\* A plausible slip: the duplicate test is dropped and every vector is added.
IsDuplicateNeverRejects(neighbours) == FALSE

\* search_utils.py line 47: indices.size > 0 and distances[0] < 1e-9
IsDuplicate(neighbours) ==
    Len(neighbours) > 0 /\ neighbours[1].dist < DupEps

\* Returns the flag and the index after the call.
add_new_turtle_image_to_index(index, v) ==
    IF IsDuplicate(faiss_search_k_neighbors(index, v, 1))
    THEN [ret |-> FALSE, index |-> index]
    ELSE [ret |-> TRUE, index |-> Append(index, v)]

NoAdd == [called |-> FALSE, before |-> <<>>, vec |-> 0, ret |-> FALSE]

AddIdle ==
    /\ faiss_index = <<>>
    /\ lastAdd = NoAdd

Threads == {1, 2}

NoLocal ==
    [kind |-> "", img |-> "", loc |-> "", index |-> <<>>, meta |-> <<>>,
     added |-> FALSE]

ThreadsIdle ==
    /\ pc = [t \in Threads |-> "idle"]
    /\ local = [t \in Threads |-> NoLocal]

(***************************************************************************)
(* The persisted artifacts (vlad_vocab.pkl, turtles.index, metadata.pkl,   *)
(* global_vlad_array.npy).  gen is the number of the build that wrote the  *)
(* file, enc the generation of the vocabulary the index vectors were       *)
(* encoded with.                                                           *)
(***************************************************************************)
NoVocab == [exists |-> FALSE, fitted |-> FALSE, gen |-> 0]
NoIndex == [exists |-> FALSE, vecs |-> <<>>, gen |-> 0, enc |-> 0]
NoMeta == [exists |-> FALSE, recs |-> <<>>, gen |-> 0]
NoVlad == [exists |-> FALSE, rows |-> <<>>, gen |-> 0]

EmptyDisk ==
    [vocab |-> NoVocab, index |-> NoIndex, metadata |-> NoMeta, vlad_array |-> NoVlad]

\* GLOBAL_RESOURCES before load_or_generate_persistent_data has run.
MemIdle == mem = EmptyDisk

NoError == ""

\* A key a dictionary does not hold, an argument left at None.
NoKey == "<absent>"

NoSearch ==
    [called |-> FALSE, version |-> "", img |-> "", k |-> 0, depth |-> 0,
     error |-> NoError, items |-> <<>>, encoded |-> "none",
     location_filter |-> NoKey, subset_indices |-> <<>>, positions |-> <<>>,
     searches |-> 0]

SearchIdle == lastSearch = NoSearch

NoRerank ==
    [called |-> FALSE, drops_skipped |-> FALSE, query_described |-> FALSE,
     initial_results |-> <<>>, outcomes |-> <<>>, ret |-> <<>>, extractions |-> 0]

RerankIdle == lastRerank = NoRerank

NoMatch ==
    [called |-> FALSE, img |-> "", results_normal |-> <<>>, results_mirror |-> <<>>,
     ret |-> <<>>, searches |-> 0, reranks |-> 0, mirror_written |-> FALSE,
     mirror_left |-> FALSE]

MatchIdle == lastMatch = NoMatch

NoStartup ==
    [called |-> FALSE, missing |-> FALSE, rebuilt |-> FALSE, encoded |-> "none"]

StartIdle ==
    /\ builds = 0
    /\ lastStartup = NoStartup

NoRebuild ==
    [pc |-> "idle", kmeans_vocab |-> NoVocab, all_vlad_vectors |-> <<>>,
     final_metadata |-> <<>>]

RebuildIdle == rebuild = NoRebuild

NoVladCall ==
    [called |-> FALSE, descriptors |-> <<>>, centers |-> <<>>, nan |-> FALSE,
     vlad |-> <<>>]

NoSift ==
    [called |-> FALSE, image |-> "", output_path |-> [stem |-> "", ext |-> ""],
     before |-> <<>>, save |-> "", ok |-> FALSE, none |-> TRUE, descriptors |-> 0]

NoFile == [exists |-> FALSE, keypoints |-> 0, descriptors |-> 0]

FeaturesIdle ==
    /\ lastVlad = NoVladCall
    /\ lastSift = NoSift
    /\ npz_files = <<>>

NoRequest == [time |-> 0, name |-> ""]

NoReview ==
    [called |-> FALSE, op |-> "", request_id |-> NoRequest, match_turtle_id |-> NoKey,
     new_location |-> NoKey, before |-> {}, ok |-> FALSE, message |-> "",
     raised |-> NoError, queue |-> {}, query_image |-> NoKey]

ReviewIdle ==
    /\ clock = 0
    /\ review_queue = {}
    /\ loose_images = <<>>
    /\ uploads = <<>>
    /\ lastReview = NoReview

NoRefData == [images |-> <<>>, npz |-> NoFile]

RefIdle ==
    /\ ref_data = NoRefData
    /\ processed = <<>>

NoTraining ==
    [pc |-> "idle", all_npz_files |-> <<>>, batch_size |-> 0, i |-> 0,
     current_batch_descriptors |-> <<>>, fits |-> <<>>, error |-> NoError]

TrainIdle == train = NoTraining

NoPicture == [turtle |-> "", facing |-> ""]

NoMirror == [picture |-> NoPicture, owner |-> 0]

NoRequestThread ==
    [pc |-> "idle", filename |-> "", picture |-> NoPicture, results_normal |-> <<>>,
     img |-> NoPicture, ret |-> <<>>, met_other |-> FALSE]

MirrorIdle ==
    /\ upload_folder = <<>>
    /\ mirror_files = <<>>
    /\ request_threads = <<>>

None == "None"

NoUploadRequest ==
    [pc |-> "idle", role |-> "", allowed |-> FALSE, ready_seen |-> FALSE,
     manager_seen |-> None, called |-> "", status |-> 0]

BootIdle ==
    /\ manager = None
    /\ manager_ready = FALSE
    /\ manager_thread = "idle"
    /\ upload_requests = <<>>

RestIdle ==
    /\ ReviewIdle
    /\ RefIdle
    /\ TrainIdle
    /\ MirrorIdle
    /\ BootIdle

\* Every other part of the rest at its start.
BesidesReviewIdle == RefIdle /\ TrainIdle /\ MirrorIdle /\ BootIdle
BesidesRefIdle == ReviewIdle /\ TrainIdle /\ MirrorIdle /\ BootIdle
BesidesTrainIdle == ReviewIdle /\ RefIdle /\ MirrorIdle /\ BootIdle
BesidesMirrorIdle == ReviewIdle /\ RefIdle /\ TrainIdle /\ BootIdle
BesidesBootIdle == ReviewIdle /\ RefIdle /\ TrainIdle /\ MirrorIdle

\* load_metadata answers [] for a missing file; the other loaders answer None,
\* which is the record with exists = FALSE.
load_vocabulary(d) == d.vocab
load_faiss_index(d) == d.index
load_metadata(d) == d.metadata.recs
load_vlad_array(d) == d.vlad_array

\* What the image yields: its encoded vector, or NoDesc when it cannot be read
\* or the detector finds no descriptors.
NoDesc == 0 - 1
Corrupt == 0 - 2

RECURSIVE SeqMax(_)
SeqMax(s) ==
    IF Len(s) = 1 THEN s[1]
    ELSE LET m == SeqMax(Tail(s)) IN IF s[1] > m THEN s[1] ELSE m

(***************************************************************************)
(* generate_clustering_and_index (backend/image_processing.py): trains the *)
(* vocabulary, encodes every readable descriptor file, labels the vectors  *)
(* with DBSCAN and writes the four artifacts.  npz is the directory        *)
(* listing: per file its vector, or Corrupt.                               *)
(***************************************************************************)
DbscanMinSamples == 5

\* All vectors of the model lie within eps = 0.5 of each other, so every point
\* has the whole corpus as its neighbourhood: one cluster (label 0) when the
\* corpus reaches min_samples, noise (-1) for every point otherwise.
run_initial_dbscan(vlad_vectors) ==
    [i \in 1 .. Len(vlad_vectors) |->
        IF Len(vlad_vectors) >= DbscanMinSamples THEN 0 ELSE 0 - 1]

NpzName(i) == <<"npz", i>>

\* load_all_descriptors: the readable files, each with its place in the listing.
load_all_descriptors(npz) ==
    LET listing == [i \in 1 .. Len(npz) |->
                        [filename |-> NpzName(i), original_index |-> i - 1,
                         vec |-> npz[i]]]
        Readable(f) == f.vec # Corrupt
    IN  SelectSeq(listing, Readable)

generate_clustering_and_index(npz, d, g) ==
    LET file_metadata == load_all_descriptors(npz)
        vlad_array == [i \in 1 .. Len(file_metadata) |-> file_metadata[i].vec]
        site_labels == run_initial_dbscan(vlad_array)
        final_metadata == [i \in 1 .. Len(file_metadata) |->
                              [filename |-> file_metadata[i].filename,
                               original_index |-> file_metadata[i].original_index,
                               site_id |-> site_labels[i],
                               location |-> NoKey]]
    IN  IF file_metadata = <<>> THEN d
        ELSE [vocab |-> [exists |-> TRUE, fitted |-> TRUE, gen |-> g],
              vlad_array |-> [exists |-> TRUE, rows |-> vlad_array, gen |-> g],
              metadata |-> [exists |-> TRUE, recs |-> final_metadata, gen |-> g],
              index |-> [exists |-> TRUE, vecs |-> initialize_faiss_index(vlad_array),
                         gen |-> g, enc |-> g]]

(***************************************************************************)
(* Registration of a new identity (backend/image_processing.py).           *)
(***************************************************************************)
Uploads == {"a.jpg", "a_again.jpg", "b.png", "c.jpg", "blank.jpg"}

ImageVec(img) ==
    CASE img = "a.jpg" -> 0
      [] img = "a_again.jpg" -> 0
      [] img = "b.png" -> 4
      [] img = "c.jpg" -> 3
      [] img = "TEMP_MIRROR_a.jpg" -> 50
      [] img = "TEMP_MIRROR_b.png" -> 3
      [] OTHER -> NoDesc

Locations == {"Unknown", "Kansas"}

\* process_image_through_SIFT succeeds exactly when the image is readable and
\* has descriptors; process_new_image then returns its encoded vector.
SiftSucceeds(img) == ImageVec(img) # NoDesc
process_new_image(img) == ImageVec(img)

\* max(existing_ids) + 1 if existing_ids else 1
NewSiteId(metadata) ==
    IF metadata = <<>> THEN 1
    ELSE SeqMax([i \in 1 .. Len(metadata) |-> metadata[i].site_id]) + 1

\* 'original_index': faiss_index.ntotal - 1
NewEntry(img, site, loc, index) ==
    [filename |-> <<"img", img>>, site_id |-> site, location |-> loc,
     original_index |-> Len(index) - 1]

NoReg == [called |-> FALSE, kind |-> "", img |-> "", ok |-> FALSE, added |-> FALSE]

\* register_new_site_from_upload as one call: what it leaves on disk and what
\* add_new_turtle_image_to_index answered inside it.
register_new_site_from_upload(d, img, loc) ==
    LET vocab == load_vocabulary(d)
        index == load_faiss_index(d)
        metadata == load_metadata(d)
        r == add_new_turtle_image_to_index(index.vecs, process_new_image(img))
        entry == NewEntry(img, NewSiteId(metadata), loc, r.index)
    IN  IF ~vocab.exists \/ ~index.exists \/ ~SiftSucceeds(img)
        THEN [disk |-> d, ok |-> FALSE, added |-> FALSE]
        ELSE [disk |-> [d EXCEPT !.metadata.exists = TRUE,
                                 !.metadata.recs = Append(metadata, entry),
                                 !.index.vecs = r.index],
              ok |-> TRUE, added |-> r.ret]

\* register_new_turtle: no resource check, no location in the record.
register_new_turtle(d, img) ==
    LET index == load_faiss_index(d)
        metadata == load_metadata(d)
        r == add_new_turtle_image_to_index(index.vecs, process_new_image(img))
        entry == NewEntry(img, NewSiteId(metadata), NoKey, r.index)
    IN  IF ~SiftSucceeds(img)
        THEN [disk |-> d, ok |-> FALSE, added |-> FALSE]
        ELSE [disk |-> [d EXCEPT !.metadata.exists = TRUE,
                                 !.metadata.recs = Append(metadata, entry),
                                 !.index.vecs = r.index],
              ok |-> TRUE, added |-> r.ret]

MaxMeta == 4

RegisterNewSiteFromUpload(img, loc) ==
    /\ Len(disk.metadata.recs) < MaxMeta
    /\ LET r == register_new_site_from_upload(disk, img, loc)
       IN  /\ disk' = r.disk
           /\ lastReg' = [called |-> TRUE, kind |-> "site", img |-> img,
                          ok |-> r.ok, added |-> r.added]
    /\ OutsideRegister

\* Without an index or a vocabulary on disk the call raises before it writes.
RegisterNewTurtle(img) ==
    /\ Len(disk.metadata.recs) < MaxMeta
    /\ disk.vocab.exists /\ disk.index.exists
    /\ LET r == register_new_turtle(disk, img)
       IN  /\ disk' = r.disk
           /\ lastReg' = [called |-> TRUE, kind |-> "turtle", img |-> img,
                          ok |-> r.ok, added |-> r.added]
    /\ OutsideRegister

RegIdle ==
    /\ disk = EmptyDisk
    /\ lastReg = NoReg

\* The descriptor directories the initial build ran over: every file readable.
MaxCorpus == 2
InitialCorpora ==
    UNION {[1 .. n -> {0, 50}] : n \in 1 .. MaxCorpus}

InitRegister ==
    /\ disk \in {generate_clustering_and_index(c, EmptyDisk, 1) : c \in InitialCorpora}
    /\ lastReg = NoReg
    /\ AddIdle
    /\ ThreadsIdle
    /\ StartIdle
    /\ RerankIdle
    /\ MatchIdle
    /\ RebuildIdle
    /\ FeaturesIdle
    /\ RestIdle
    /\ MemIdle
    /\ SearchIdle

NextRegister ==
    \/ \E img \in Uploads, loc \in Locations : RegisterNewSiteFromUpload(img, loc)
    \/ \E img \in Uploads : RegisterNewTurtle(img)

SpecRegister == InitRegister /\ [][NextRegister]_vars

(***************************************************************************)
(* SpecConcurrent: two request threads run registration calls against the  *)
(* same files.  A call is split where it reads or writes a shared file:    *)
(* load_faiss_index, load_metadata, the duplicate check and add on the     *)
(* loaded copy, joblib.dump of the metadata, faiss.write_index.  The code  *)
(* takes no lock around any of these.                                      *)
(***************************************************************************)
ConcUploads == {"b.png", "blank.jpg"}
MaxConcMeta == 2

RegBegin(t, kind, img, loc) ==
    /\ pc[t] = "idle"
    /\ Len(disk.metadata.recs) < MaxConcMeta
    /\ pc' = [pc EXCEPT ![t] = "load_index"]
    /\ local' = [local EXCEPT ![t] = [NoLocal EXCEPT !.kind = kind, !.img = img,
                                                    !.loc = loc]]
    /\ UNCHANGED regVars
    /\ OutsideThreads

RegLoadIndex(t) ==
    /\ pc[t] = "load_index"
    /\ local' = [local EXCEPT ![t].index = load_faiss_index(disk).vecs]
    /\ pc' = [pc EXCEPT ![t] = "load_metadata"]
    /\ UNCHANGED regVars
    /\ OutsideThreads

RegLoadMetadata(t) ==
    /\ pc[t] = "load_metadata"
    /\ local' = [local EXCEPT ![t].meta = load_metadata(disk)]
    /\ pc' = [pc EXCEPT ![t] = "add"]
    /\ UNCHANGED regVars
    /\ OutsideThreads

\* process_image_through_SIFT, process_new_image, add_new_turtle_image_to_index
RegAdd(t) ==
    /\ pc[t] = "add"
    /\ IF ~SiftSucceeds(local[t].img)
       THEN /\ pc' = [pc EXCEPT ![t] = "idle"]
            /\ local' = [local EXCEPT ![t] = NoLocal]
            /\ lastReg' = [called |-> TRUE, kind |-> local[t].kind,
                           img |-> local[t].img, ok |-> FALSE, added |-> FALSE]
       ELSE LET r == add_new_turtle_image_to_index(local[t].index,
                                                   process_new_image(local[t].img))
            IN  /\ local' = [local EXCEPT ![t].index = r.index, ![t].added = r.ret]
                /\ pc' = [pc EXCEPT ![t] = IF local[t].kind = "site"
                                           THEN "dump_metadata" ELSE "write_index"]
                /\ UNCHANGED lastReg
    /\ UNCHANGED disk
    /\ OutsideThreads

RegReturn(t) ==
    /\ pc' = [pc EXCEPT ![t] = "idle"]
    /\ local' = [local EXCEPT ![t] = NoLocal]
    /\ lastReg' = [called |-> TRUE, kind |-> local[t].kind, img |-> local[t].img,
                   ok |-> TRUE, added |-> local[t].added]

\* metadata.append(new_entry); joblib.dump(metadata, DEFAULT_METADATA_PATH)
RegDumpMetadata(t) ==
    /\ pc[t] = "dump_metadata"
    /\ LET entry == NewEntry(local[t].img, NewSiteId(local[t].meta),
                             IF local[t].kind = "site" THEN local[t].loc ELSE NoKey,
                             local[t].index)
       IN  disk' = [disk EXCEPT !.metadata.exists = TRUE,
                                !.metadata.recs = Append(local[t].meta, entry)]
    /\ IF local[t].kind = "site"
       THEN /\ pc' = [pc EXCEPT ![t] = "write_index"]
            /\ UNCHANGED <<local, lastReg>>
       ELSE RegReturn(t)
    /\ OutsideThreads

\* faiss.write_index(faiss_index, DEFAULT_INDEX_PATH)
RegWriteIndex(t) ==
    /\ pc[t] = "write_index"
    /\ disk' = [disk EXCEPT !.index.vecs = local[t].index]
    /\ IF local[t].kind = "site"
       THEN RegReturn(t)
       ELSE /\ pc' = [pc EXCEPT ![t] = "dump_metadata"]
            /\ UNCHANGED <<local, lastReg>>
    /\ OutsideThreads

\* Corpora with no two vectors near each other.
DistinctCorpora == {<<0>>, <<50>>}

InitConcurrent ==
    /\ disk \in {generate_clustering_and_index(c, EmptyDisk, 1) : c \in DistinctCorpora}
    /\ lastReg = NoReg
    /\ AddIdle
    /\ ThreadsIdle
    /\ StartIdle
    /\ RerankIdle
    /\ MatchIdle
    /\ RebuildIdle
    /\ FeaturesIdle
    /\ RestIdle
    /\ MemIdle
    /\ SearchIdle

NextConcurrent ==
    \E t \in Threads :
        \/ \E img \in ConcUploads : RegBegin(t, "site", img, "Unknown")
        \/ \E img \in ConcUploads : RegBegin(t, "turtle", img, NoKey)
        \/ RegLoadIndex(t)
        \/ RegLoadMetadata(t)
        \/ RegAdd(t)
        \/ RegDumpMetadata(t)
        \/ RegWriteIndex(t)

SpecConcurrent == InitConcurrent /\ [][NextConcurrent]_vars

(***************************************************************************)
(* smart_search, global (diversity) mode.  Two versions of the function    *)
(* exist: backend/image_processing.py searches k_results * 10 deep and     *)
(* answers an error dictionary when the resources are not loaded or the    *)
(* image cannot be processed; backend/turtles/image_processing.py searches *)
(* k_results * 2 deep and answers the empty list.  Both walk the           *)
(* neighbours in the order FAISS returns them, skip the padding (-1) and   *)
(* positions beyond the metadata, and keep the first neighbour of each     *)
(* site_id until k_results are collected.                                  *)
(***************************************************************************)
Candidate(meta, dist) ==
    [filename |-> meta.filename, site_id |-> meta.site_id, distance |-> dist,
     location |-> meta.location]

\* A plausible slip: the seen-set is never consulted.
SeenSiteNever(results, site_id) == FALSE

\* site_id in seen_sites
SeenSite(results, site_id) ==
    \E j \in 1 .. Len(results) : results[j].site_id = site_id

\* The loop over the neighbours from position i on, results collected so far.
RECURSIVE UniqueSites(_, _, _, _, _)
UniqueSites(neighbours, metadata, k_results, i, results) ==
    IF i > Len(neighbours) THEN results
    ELSE LET n == neighbours[i]
         IN  IF n.idx = 0 - 1 \/ n.idx >= Len(metadata)
             THEN UniqueSites(neighbours, metadata, k_results, i + 1, results)
             ELSE LET meta == metadata[n.idx + 1]
                      next == IF SeenSite(results, meta.site_id) THEN results
                              ELSE Append(results, Candidate(meta, n.dist))
                  IN  IF Len(next) >= k_results THEN next
                      ELSE UniqueSites(neighbours, metadata, k_results, i + 1, next)

\* compute_vlad(descriptors, kmeans) inside process_new_image: kmeans.predict
\* raises for a vocabulary without fitted centroids, and the exception leaves
\* smart_search.  encoded tells what kind of vocabulary compute_vlad was given.
EncodedWith(vocab) == IF vocab.fitted THEN "fitted" ELSE "unfitted"

\* backend/image_processing.py
smart_search_backend(m, img, k_results) ==
    IF ~m.vocab.exists \/ ~m.index.exists \/ m.metadata.recs = <<>>
    THEN [error |-> "System resources not loaded", items |-> <<>>, encoded |-> "none"]
    ELSE IF process_new_image(img) = NoDesc
    THEN [error |-> "Could not process image", items |-> <<>>, encoded |-> "none"]
    ELSE IF ~m.vocab.fitted
    THEN [error |-> "NotFittedError", items |-> <<>>, encoded |-> EncodedWith(m.vocab)]
    ELSE [error |-> NoError,
          items |-> UniqueSites(
                        faiss_search_k_neighbors(m.index.vecs, process_new_image(img),
                                                 k_results * 10),
                        m.metadata.recs, k_results, 1, <<>>),
          encoded |-> EncodedWith(m.vocab)]

\* backend/turtles/image_processing.py
smart_search_turtles(m, img, k_results) ==
    IF ~m.vocab.exists \/ ~m.index.exists
    THEN [error |-> NoError, items |-> <<>>, encoded |-> "none"]
    ELSE IF process_new_image(img) = NoDesc
    THEN [error |-> NoError, items |-> <<>>, encoded |-> "none"]
    ELSE IF ~m.vocab.fitted
    THEN [error |-> "NotFittedError", items |-> <<>>, encoded |-> EncodedWith(m.vocab)]
    ELSE [error |-> NoError,
          items |-> UniqueSites(
                        faiss_search_k_neighbors(m.index.vecs, process_new_image(img),
                                                 k_results * 2),
                        m.metadata.recs, k_results, 1, <<>>),
          encoded |-> EncodedWith(m.vocab)]

SmartSearchBackend(img, k_results) ==
    /\ LET r == smart_search_backend(mem, img, k_results)
       IN  lastSearch' = [called |-> TRUE, version |-> "backend", img |-> img,
                          k |-> k_results, depth |-> k_results * 10,
                          error |-> r.error, items |-> r.items,
                          encoded |-> r.encoded,
                          location_filter |-> NoKey, subset_indices |-> <<>>,
                          positions |-> <<>>,
                          searches |-> IF r.encoded = "fitted" THEN 1 ELSE 0]
    /\ OutsideSearch

SmartSearchTurtles(img, k_results) ==
    /\ LET r == smart_search_turtles(mem, img, k_results)
       IN  lastSearch' = [called |-> TRUE, version |-> "turtles", img |-> img,
                          k |-> k_results, depth |-> k_results * 2,
                          error |-> r.error, items |-> r.items,
                          encoded |-> r.encoded,
                          location_filter |-> NoKey, subset_indices |-> <<>>,
                          positions |-> <<>>,
                          searches |-> IF r.encoded = "fitted" THEN 1 ELSE 0]
    /\ OutsideSearch

(***************************************************************************)
(* SpecSearch: smart_search over any small index and any small metadata    *)
(* list, the two of any lengths (registration can leave them unequal).     *)
(***************************************************************************)
MaxSearchIndex == 3
MaxSearchMeta == 3
MaxK == 2

SearchVecs == {0, 3, 50}
SearchSites == {1, 2}
QueryImages == {"a.jpg", "b.png", "blank.jpg"}

SeqsUpTo(S, n) == UNION {[1 .. m -> S] : m \in 0 .. n}

MetadataOf(sites) ==
    [i \in 1 .. Len(sites) |->
        [filename |-> NpzName(i), original_index |-> i - 1, site_id |-> sites[i],
         location |-> "Unknown"]]

LoadedResources(vecs, sites) ==
    [vocab |-> [exists |-> TRUE, fitted |-> TRUE, gen |-> 1],
     index |-> [exists |-> TRUE, vecs |-> vecs, gen |-> 1, enc |-> 1],
     metadata |-> [exists |-> TRUE, recs |-> MetadataOf(sites), gen |-> 1],
     vlad_array |-> [exists |-> TRUE, rows |-> vecs, gen |-> 1]]

InitSearch ==
    /\ mem \in {EmptyDisk} \cup
               {LoadedResources(vecs, sites) :
                    vecs \in SeqsUpTo(SearchVecs, MaxSearchIndex),
                    sites \in SeqsUpTo(SearchSites, MaxSearchMeta)}
    /\ lastSearch = NoSearch
    /\ AddIdle
    /\ RegIdle
    /\ ThreadsIdle
    /\ StartIdle
    /\ RerankIdle
    /\ MatchIdle
    /\ RebuildIdle
    /\ FeaturesIdle
    /\ RestIdle

NextSearch ==
    \/ \E img \in QueryImages, k \in 1 .. MaxK : SmartSearchBackend(img, k)
    \/ \E img \in QueryImages, k \in 1 .. MaxK : SmartSearchTurtles(img, k)

SpecSearch == InitSearch /\ [][NextSearch]_vars

(***************************************************************************)
(* smart_search with a location filter, and filtered_faiss_search          *)
(* (backend/turtles/search_utils.py).  backend/image_processing.py selects *)
(* the metadata positions whose location equals the filter, takes their    *)
(* rows of the global vector array and returns what filtered_faiss_search  *)
(* returns for them: global positions and distances.                       *)
(* backend/turtles/image_processing.py accepts the argument and never      *)
(* reads it.                                                               *)
(***************************************************************************)
\* distances < 1e-6, in units of 1e-10
QueryEps == 10000

\* A plausible slip: the test for an empty subset is left out.
NoSubsetVectorsUnchecked(subset_vectors) == FALSE

\* subset_vectors.shape[0] == 0
NoSubsetVectors(subset_vectors) == Len(subset_vectors) = 0

\* numpy indexing of an array of length n with j: a negative j counts from the
\* end.  The answer is the 1-based place, or 0 when j is out of bounds.
NumpyPlace(n, j) ==
    IF 0 <= j /\ j < n THEN j + 1
    ELSE IF j < 0 /\ 0 - j <= n THEN n + j + 1
    ELSE 0

\* The local index is an IndexFlatL2 over the subset; the search pads with
\* position -1 when the subset holds fewer than n_results vectors.
filtered_faiss_search(query_vector, subset_vectors, subset_indices, n_results) ==
    LET found == faiss_search_k_neighbors(subset_vectors, query_vector, n_results)
        NotQuery(n) == ~(n.dist < QueryEps)
        kept == SelectSeq(found, NotQuery)
        place == [i \in 1 .. Len(kept) |-> NumpyPlace(Len(subset_indices), kept[i].idx)]
    IN  IF NoSubsetVectors(subset_vectors)
        THEN [error |-> NoError, positions |-> <<>>, searches |-> 0]
        ELSE IF \E i \in 1 .. Len(kept) : place[i] = 0
        THEN [error |-> "IndexError", positions |-> <<>>, searches |-> 1]
        ELSE [error |-> NoError,
              positions |-> [i \in 1 .. Len(kept) |->
                                [idx |-> subset_indices[place[i]],
                                 distance |-> kept[i].dist]],
              searches |-> 1]

\* [i for i, m in enumerate(metadata) if m.get('location') == location_filter]
TargetIndices(metadata, location_filter) ==
    LET AtLocation(p) == metadata[p + 1].location = location_filter
    IN  SelectSeq([i \in 1 .. Len(metadata) |-> i - 1], AtLocation)

\* backend/image_processing.py, location_filter given (MODE A)
smart_search_backend_filtered(m, img, location_filter, k_results) ==
    LET target_indices == TargetIndices(m.metadata.recs, location_filter)
        rows == m.vlad_array.rows
        subset_vectors == [i \in 1 .. Len(target_indices) |-> rows[target_indices[i] + 1]]
        r == filtered_faiss_search(process_new_image(img), subset_vectors,
                                   target_indices, k_results)
        Answer(error, positions, searches, encoded) ==
            [error |-> error, items |-> <<>>, encoded |-> encoded,
             positions |-> positions, searches |-> searches]
    IN  IF ~m.vocab.exists \/ ~m.index.exists \/ m.metadata.recs = <<>>
        THEN Answer("System resources not loaded", <<>>, 0, "none")
        ELSE IF process_new_image(img) = NoDesc
        THEN Answer("Could not process image", <<>>, 0, "none")
        ELSE IF ~m.vocab.fitted
        THEN Answer("NotFittedError", <<>>, 0, EncodedWith(m.vocab))
        ELSE IF target_indices = <<>>
        THEN Answer(NoError, <<>>, 0, EncodedWith(m.vocab))
        ELSE IF ~m.vlad_array.exists
        THEN Answer("TypeError", <<>>, 0, EncodedWith(m.vocab))
        ELSE IF \E i \in 1 .. Len(target_indices) : target_indices[i] >= Len(rows)
        THEN Answer("IndexError", <<>>, 0, EncodedWith(m.vocab))
        ELSE Answer(r.error, r.positions, r.searches, EncodedWith(m.vocab))

\* backend/turtles/image_processing.py: location_filter is a parameter the body
\* does not mention.
smart_search_turtles_filtered(m, img, location_filter, k_results) ==
    smart_search_turtles(m, img, k_results)

SmartSearchBackendFiltered(img, location_filter, k_results) ==
    /\ LET r == smart_search_backend_filtered(mem, img, location_filter, k_results)
       IN  lastSearch' = [called |-> TRUE, version |-> "backend", img |-> img,
                          k |-> k_results, depth |-> 0,
                          error |-> r.error, items |-> r.items,
                          encoded |-> r.encoded,
                          location_filter |-> location_filter,
                          subset_indices |-> TargetIndices(mem.metadata.recs,
                                                           location_filter),
                          positions |-> r.positions, searches |-> r.searches]
    /\ OutsideSearch

SmartSearchTurtlesFiltered(img, location_filter, k_results) ==
    /\ LET r == smart_search_turtles_filtered(mem, img, location_filter, k_results)
       IN  lastSearch' = [called |-> TRUE, version |-> "turtles", img |-> img,
                          k |-> k_results, depth |-> k_results * 2,
                          error |-> r.error, items |-> r.items,
                          encoded |-> r.encoded,
                          location_filter |-> location_filter,
                          subset_indices |-> <<>>, positions |-> <<>>,
                          searches |-> IF r.encoded = "fitted" THEN 1 ELSE 0]
    /\ OutsideSearch

\* filtered_faiss_search called on its own, as the tests call it: the rows of
\* the vector array at subset_indices, and subset_indices.
FilteredFaissSearch(img, subset_indices, n_results) ==
    /\ LET rows == mem.vlad_array.rows
           subset_vectors == [i \in 1 .. Len(subset_indices) |->
                                 rows[subset_indices[i] + 1]]
           r == filtered_faiss_search(process_new_image(img), subset_vectors,
                                      subset_indices, n_results)
       IN  lastSearch' = [called |-> TRUE, version |-> "filtered_faiss_search",
                          img |-> img, k |-> n_results, depth |-> 0,
                          error |-> r.error, items |-> <<>>, encoded |-> "none",
                          location_filter |-> NoKey,
                          subset_indices |-> subset_indices,
                          positions |-> r.positions, searches |-> r.searches]
    /\ OutsideSearch

(***************************************************************************)
(* SpecFiltered: the filtered searches over any small corpus whose records *)
(* carry a location, index, vector array and metadata of one length.  The  *)
(* vectors lie further apart than the 1e-6 of the query test, or on the    *)
(* query.  A search writes no state, so one call per behaviour shows all.  *)
(***************************************************************************)
MaxFilterIndex == 3

FilterVecs == {0, 200}
FilterLocations == {"Kansas", "Topeka"}
FilterQueries == {"a.jpg", "blank.jpg"}

LocatedResources(vecs, sites, locs) ==
    [LoadedResources(vecs, sites) EXCEPT
        !.metadata.recs = [i \in 1 .. Len(sites) |->
                              [MetadataOf(sites)[i] EXCEPT !.location = locs[i]]]]

\* The ascending lists of positions of an array of n rows.
RECURSIVE AscendingFrom(_, _)
AscendingFrom(p, n) ==
    IF p >= n THEN {<<>>}
    ELSE LET rest == AscendingFrom(p + 1, n)
         IN  rest \cup {<<p>> \o r : r \in rest}

InitFiltered ==
    /\ mem \in {EmptyDisk} \cup
               UNION {{LocatedResources(vecs, sites, locs) :
                            vecs \in [1 .. n -> FilterVecs],
                            sites \in [1 .. n -> SearchSites],
                            locs \in [1 .. n -> FilterLocations]} :
                      n \in 1 .. MaxFilterIndex}
    /\ lastSearch = NoSearch
    /\ AddIdle
    /\ RegIdle
    /\ ThreadsIdle
    /\ StartIdle
    /\ RerankIdle
    /\ MatchIdle
    /\ RebuildIdle
    /\ FeaturesIdle
    /\ RestIdle

NextFiltered ==
    \/ \E img \in FilterQueries, loc \in FilterLocations \cup {"Nowhere"}, k \in 1 .. MaxK :
        /\ ~lastSearch.called
        /\ SmartSearchBackendFiltered(img, loc, k)
    \/ \E img \in FilterQueries, loc \in FilterLocations \cup {"Nowhere"}, k \in 1 .. MaxK :
        /\ ~lastSearch.called
        /\ SmartSearchTurtlesFiltered(img, loc, k)
    \/ \E subset_indices \in AscendingFrom(0, Len(mem.vlad_array.rows)), n \in 1 .. MaxK :
        /\ ~lastSearch.called
        /\ FilteredFaissSearch("a.jpg", subset_indices, n)

SpecFiltered == InitFiltered /\ [][NextFiltered]_vars

(***************************************************************************)
(* SpecDeepSearch: smart_search over corpora that hold more entries than   *)
(* the depth of the narrower of the two searches (k_results * 2), index    *)
(* and metadata of equal length as a build leaves them.                    *)
(***************************************************************************)
DeepIndexSize == 5

InitDeepSearch ==
    /\ mem \in {LoadedResources(vecs, sites) :
                    vecs \in [1 .. DeepIndexSize -> {0, 50}],
                    sites \in [1 .. DeepIndexSize -> SearchSites]}
    /\ lastSearch = NoSearch
    /\ AddIdle
    /\ RegIdle
    /\ ThreadsIdle
    /\ StartIdle
    /\ RerankIdle
    /\ MatchIdle
    /\ RebuildIdle
    /\ FeaturesIdle
    /\ RestIdle

SpecDeepSearch == InitDeepSearch /\ [][NextSearch]_vars

(***************************************************************************)
(* rerank_results_with_spatial_verification (the geometric verifier).  Its *)
(* definition is not part of the sources at hand; its callers and its two  *)
(* test files are.  It is modelled from the contract of the verifier and   *)
(* from the paths the tests name: empty input, query without descriptors,  *)
(* candidate file missing, candidate without descriptors, exception while  *)
(* matching (all three: the candidate is skipped), fewer than four good    *)
(* matches or no homography (score 0), inlier count (score).  The two test *)
(* files differ on a skipped candidate: one keeps it without a score, the  *)
(* other leaves it out of the answer; drops_skipped selects between them.  *)
(***************************************************************************)
NoScore == 0 - 1
Skipped == NoScore
Scores == {0, 14, 15, 16}
VerificationOutcomes == Scores \cup {Skipped}

\* x.get('spatial_score', 0)
Score(c) == IF c.spatial_score = NoScore THEN 0 ELSE c.spatial_score

\* The candidates as smart_search hands them over: no spatial_score and no
\* is_mirrored key yet.
Unscored(items) ==
    [i \in 1 .. Len(items) |->
        [filename |-> items[i].filename, site_id |-> items[i].site_id,
         distance |-> items[i].distance, location |-> items[i].location,
         spatial_score |-> NoScore, is_mirrored |-> FALSE]]

\* A plausible slip: the verified list is returned in retrieval order.
SortByScoreForgotten(results) == results

\* Descending by score, candidates of equal score in their earlier order.
RECURSIVE SortByScore(_)
SortByScore(results) ==
    IF results = <<>> THEN <<>>
    ELSE LET last == results[Len(results)]
             front == SortByScore(SubSeq(results, 1, Len(results) - 1))
             NotBelow(c) == Score(c) >= Score(last)
             Below(c) == Score(c) < Score(last)
         IN  SelectSeq(front, NotBelow) \o <<last>> \o SelectSeq(front, Below)

\* The loop over the candidates: outcomes[i] is what verification of
\* candidate i came to.
Verified(initial_results, outcomes, drops_skipped) ==
    LET attached == [i \in 1 .. Len(initial_results) |->
                        [initial_results[i] EXCEPT !.spatial_score = outcomes[i]]]
        WasVerified(c) == c.spatial_score # NoScore
    IN  IF drops_skipped THEN SelectSeq(attached, WasVerified) ELSE attached

\* A plausible slip: failing closed.
QueryUndescribedFailsClosed(initial_results) == <<>>

\* The query yields no descriptors: the list goes back as it came.
QueryUndescribed(initial_results) == initial_results

rerank_results_with_spatial_verification(initial_results, query_described, outcomes, drops_skipped) ==
    IF initial_results = <<>> THEN [ret |-> <<>>, extractions |-> 0]
    ELSE IF ~query_described
    THEN [ret |-> QueryUndescribed(initial_results), extractions |-> 1]
    ELSE [ret |-> SortByScore(Verified(initial_results, outcomes, drops_skipped)),
          extractions |-> 1]

(***************************************************************************)
(* SpecRerank: the verifier applied to any candidate list of up to         *)
(* MaxCandidates candidates as a diversity search returns them, with any   *)
(* verification outcome per candidate.                                     *)
(***************************************************************************)
MaxCandidates == 3

CandidateList(n) ==
    LET metadata == MetadataOf([i \in 1 .. n |-> i])
    IN  Unscored([i \in 1 .. n |-> Candidate(metadata[i], i * i)])

RerankResults(n, query_described, outcomes, drops_skipped) ==
    /\ LET initial_results == CandidateList(n)
           r == rerank_results_with_spatial_verification(
                    initial_results, query_described, outcomes, drops_skipped)
       IN  lastRerank' = [called |-> TRUE, drops_skipped |-> drops_skipped,
                          query_described |-> query_described,
                          initial_results |-> initial_results,
                          outcomes |-> outcomes, ret |-> r.ret,
                          extractions |-> r.extractions]
    /\ OutsideRerank

InitRerank ==
    /\ lastRerank = NoRerank
    /\ MatchIdle
    /\ RebuildIdle
    /\ FeaturesIdle
    /\ RestIdle
    /\ AddIdle
    /\ RegIdle
    /\ ThreadsIdle
    /\ StartIdle
    /\ MemIdle
    /\ SearchIdle

NextRerank ==
    \E n \in 0 .. MaxCandidates, query_described \in BOOLEAN, drops_skipped \in BOOLEAN :
        \E outcomes \in [1 .. n -> VerificationOutcomes] :
            RerankResults(n, query_described, outcomes, drops_skipped)

SpecRerank == InitRerank /\ [][NextRerank]_vars

(***************************************************************************)
(* TurtleManager.search_for_matches (turtle_manager.py): the normal pass,  *)
(* the threshold check, the mirrored pass and the comparison.  A pass is   *)
(* smart_search with k_results = 20 followed, when it found candidates, by *)
(* the verifier.  smart_search is the version that answers a list in every *)
(* case, the one whose candidates carry the file_path the verifier reads.  *)
(***************************************************************************)
MATCH_CONFIDENCE_THRESHOLD == 15
PassK == 20
Returned == 5

\* results[:5]
FirstFive(results) ==
    SubSeq(results, 1, IF Len(results) < Returned THEN Len(results) ELSE Returned)

\* cv.imread(query_image_path) is not None
Readable(img) == img # "missing.jpg"

\* os.path.join(self.review_queue_dir, f"TEMP_MIRROR_{filename}")
MirrorPath(filename) == "TEMP_MIRROR_" \o filename

\* results[0].get('spatial_score', 0), or 0 for an empty list
BestScore(results) == IF results = <<>> THEN 0 ELSE Score(results[1])

\* A plausible slip: a score equal to the threshold is not accepted.
MeetsThresholdStrictly(best_score) == best_score > MATCH_CONFIDENCE_THRESHOLD

MeetsThreshold(best_score) == best_score >= MATCH_CONFIDENCE_THRESHOLD

\* A plausible slip: the mirrored list also wins a tie.
MirrorWinsTies(best_score_mirror, best_score_normal) ==
    best_score_mirror >= best_score_normal

MirrorWins(best_score_mirror, best_score_normal) ==
    best_score_mirror > best_score_normal

\* for res in results_mirror: res['is_mirrored'] = True
MarkMirrored(results) ==
    [i \in 1 .. Len(results) |-> [results[i] EXCEPT !.is_mirrored = TRUE]]

\* One pass over one orientation.
OnePass(m, path, query_described, outcomes, drops_skipped) ==
    LET candidates == Unscored(smart_search_turtles(m, path, PassK).items)
    IN  IF candidates = <<>> THEN [results |-> <<>>, reranks |-> 0]
        ELSE [results |-> rerank_results_with_spatial_verification(
                              candidates, query_described, outcomes, drops_skipped).ret,
              reranks |-> 1]

search_for_matches(m, img, described_normal, outcomes_normal, described_mirror, outcomes_mirror, drops_skipped) ==
    LET normal == OnePass(m, img, described_normal, outcomes_normal, drops_skipped)
        mirror == OnePass(m, MirrorPath(img), described_mirror, outcomes_mirror,
                          drops_skipped)
        best_score_normal == BestScore(normal.results)
        best_score_mirror == BestScore(mirror.results)
        accepted == [called |-> TRUE, img |-> img, results_normal |-> normal.results,
                     results_mirror |-> <<>>, ret |-> FirstFive(normal.results),
                     searches |-> 1, reranks |-> normal.reranks,
                     mirror_written |-> FALSE, mirror_left |-> FALSE]
        compared == [accepted EXCEPT
                        !.results_mirror = mirror.results,
                        !.searches = 2,
                        !.reranks = normal.reranks + mirror.reranks,
                        !.mirror_written = TRUE]
    IN  IF MeetsThreshold(best_score_normal) THEN accepted
        ELSE IF ~Readable(img) THEN accepted
        ELSE IF MirrorWins(best_score_mirror, best_score_normal)
        THEN [compared EXCEPT !.ret = FirstFive(MarkMirrored(mirror.results))]
        ELSE compared

(***************************************************************************)
(* SpecMatch: search_for_matches over a few loaded corpora, with any       *)
(* verification outcome per candidate and orientation.  A list longer than *)
(* two candidates is verified coarsely: each candidate either fails (0) or *)
(* verifies above the threshold (16).                                      *)
(***************************************************************************)
MatchCorpora ==
    {<<<<0, 50>>, <<1, 2>>>>,
     <<<<0, 3, 50>>, <<1, 1, 2>>>>,
     <<<<0, 1, 3, 4, 50, 50>>, <<1, 2, 3, 4, 5, 6>>>>}

MatchQueries == {"a.jpg", "b.png", "blank.jpg", "missing.jpg"}

OutcomesFor(n) ==
    IF n <= 2 THEN [1 .. n -> VerificationOutcomes] ELSE [1 .. n -> {0, 16}]

\* A query without descriptors verifies no candidate.
OutcomesDrawn(query_described, n) ==
    IF query_described THEN OutcomesFor(n) ELSE {[i \in 1 .. n |-> Skipped]}

\* One request is followed per behaviour: the call reads GLOBAL_RESOURCES and
\* leaves nothing behind, so a request does not depend on the ones before it.
SearchForMatches(img, drops_skipped) ==
    /\ ~lastMatch.called
    /\ LET found_normal == Len(smart_search_turtles(mem, img, PassK).items)
           found_mirror == Len(smart_search_turtles(mem, MirrorPath(img), PassK).items)
       IN  \E described_normal \in BOOLEAN :
           \E outcomes_normal \in OutcomesDrawn(described_normal, found_normal) :
             LET normal == OnePass(mem, img, described_normal, outcomes_normal,
                                   drops_skipped)
             IN  IF MeetsThreshold(BestScore(normal.results)) \/ ~Readable(img)
                 THEN \* the mirrored pass does not run: nothing to draw for it
                      lastMatch' = search_for_matches(mem, img, described_normal,
                                                      outcomes_normal, FALSE, <<>>,
                                                      drops_skipped)
                 ELSE \E described_mirror \in BOOLEAN :
                      \E outcomes_mirror \in OutcomesDrawn(described_mirror,
                                                           found_mirror) :
                        lastMatch' = search_for_matches(mem, img, described_normal,
                                                        outcomes_normal,
                                                        described_mirror,
                                                        outcomes_mirror, drops_skipped)
    /\ OutsideMatch

InitMatch ==
    /\ mem \in {EmptyDisk} \cup {LoadedResources(c[1], c[2]) : c \in MatchCorpora}
    /\ lastMatch = NoMatch
    /\ RerankIdle
    /\ AddIdle
    /\ RegIdle
    /\ ThreadsIdle
    /\ StartIdle
    /\ SearchIdle
    /\ RebuildIdle
    /\ FeaturesIdle
    /\ RestIdle

NextMatch ==
    \E img \in MatchQueries, drops_skipped \in BOOLEAN :
        SearchForMatches(img, drops_skipped)

SpecMatch == InitMatch /\ [][NextMatch]_vars

(***************************************************************************)
(* SpecEntryPoints: the search entry points -- smart_search in its two     *)
(* versions and search_for_matches -- called once each with any query,     *)
(* the unreadable one included, over the corpora of SpecMatch.             *)
(***************************************************************************)
NextEntryPoints ==
    \/ \E img \in MatchQueries, k \in 1 .. MaxK :
        /\ ~lastSearch.called
        /\ SmartSearchBackend(img, k)
    \/ \E img \in MatchQueries, k \in 1 .. MaxK :
        /\ ~lastSearch.called
        /\ SmartSearchTurtles(img, k)
    \/ \E img \in MatchQueries, drops_skipped \in BOOLEAN :
        SearchForMatches(img, drops_skipped)

SpecEntryPoints == InitMatch /\ [][NextEntryPoints]_vars

(***************************************************************************)
(* Startup (backend/turtles/image_processing.py):                          *)
(* load_or_generate_persistent_data loads vocabulary, index and metadata   *)
(* and, when the vocabulary or the index did not load, runs                *)
(* rebuild_faiss_index_from_folders over the data directory and loads      *)
(* again.  A data directory is the list of descriptor files found under it *)
(* once the regeneration step has run: per file the identity folder, the   *)
(* location folder and the vector its descriptors encode to, or NoDesc for *)
(* a file without usable descriptors.                                      *)
(***************************************************************************)
DirFile(tid, vec) == [tid |-> tid, loc |-> "Kansas", vec |-> vec]
DirFiles == {DirFile(1, 0), DirFile(2, 50), DirFile(3, NoDesc)}
MaxDirFiles == 2
DataDirectories == SeqsUpTo(DirFiles, MaxDirFiles)

HasDescriptors(f) == f.vec # NoDesc

\* partial_fit runs only over batches that hold descriptors; the model is
\* dumped to vocab_save_path whether or not it ever ran.
train_vocabulary_incremental(dir, g) ==
    [exists |-> TRUE,
     fitted |-> \E i \in 1 .. Len(dir) : HasDescriptors(dir[i]),
     gen |-> g]

\* hasattr(kmeans_vocab, 'cluster_centers_')
Fitted(vocab) == vocab.exists /\ vocab.fitted

\* What the rebuild leaves on disk, and what kind of vocabulary it handed to
\* compute_vlad.
rebuild_faiss_index_from_folders(dir, d, g) ==
    LET existing == load_vocabulary(d)
        kmeans_vocab == IF Fitted(existing) THEN existing
                        ELSE train_vocabulary_incremental(dir, g)
        trained == IF Fitted(existing) THEN d ELSE [d EXCEPT !.vocab = kmeans_vocab]
        described == SelectSeq(dir, HasDescriptors)
        all_vlad_vectors == [i \in 1 .. Len(described) |-> described[i].vec]
        final_metadata == [i \in 1 .. Len(described) |->
                              [filename |-> <<"npz", described[i].tid>>,
                               original_index |-> i - 1,
                               site_id |-> described[i].tid,
                               location |-> described[i].loc]]
    IN  IF ~Fitted(kmeans_vocab) THEN [disk |-> trained, encoded |-> "none"]
        ELSE IF all_vlad_vectors = <<>> THEN [disk |-> trained, encoded |-> "none"]
        ELSE [disk |-> [trained EXCEPT
                          !.vlad_array = [exists |-> TRUE, rows |-> all_vlad_vectors,
                                          gen |-> g],
                          !.metadata = [exists |-> TRUE, recs |-> final_metadata,
                                        gen |-> g],
                          !.index = [exists |-> TRUE,
                                     vecs |-> initialize_faiss_index(all_vlad_vectors),
                                     gen |-> g, enc |-> kmeans_vocab.gen]],
              encoded |-> EncodedWith(kmeans_vocab)]

\* The three loads of load_or_generate_persistent_data; vlad_array is not loaded.
LoadResources(d) ==
    [vocab |-> load_vocabulary(d),
     index |-> load_faiss_index(d),
     metadata |-> [d.metadata EXCEPT !.recs = load_metadata(d)],
     vlad_array |-> NoVlad]

\* GLOBAL_RESOURCES['vocab'] and GLOBAL_RESOURCES['faiss_index']
VocabAndIndexLoaded(m) == m.vocab.exists /\ m.index.exists

MaxBuilds == 2

\* A process start: GLOBAL_RESOURCES is filled by load_or_generate_persistent_data
\* before any request is served.
LoadOrGeneratePersistentData(dir) ==
    LET first == LoadResources(disk)
        missing == ~disk.vocab.exists \/ ~disk.index.exists \/ ~disk.metadata.exists
        r == rebuild_faiss_index_from_folders(dir, disk, builds + 1)
    IN  /\ ~VocabAndIndexLoaded(first) => builds < MaxBuilds
        /\ IF VocabAndIndexLoaded(first)
           THEN /\ mem' = first
                /\ lastStartup' = [called |-> TRUE, missing |-> missing,
                                   rebuilt |-> FALSE, encoded |-> "none"]
                /\ UNCHANGED <<disk, builds>>
           ELSE /\ disk' = r.disk
                /\ mem' = LoadResources(r.disk)
                /\ builds' = builds + 1
                /\ lastStartup' = [called |-> TRUE, missing |-> missing,
                                   rebuilt |-> TRUE, encoded |-> r.encoded]
        /\ lastSearch' = NoSearch
        /\ OutsideStartup

\* A persisted file goes missing while no process runs on it: reset_system.py
\* removes the files one by one, and each removal can fail on its own.
ArtifactFiles == {"vocab", "index", "metadata", "vlad_array"}

RemoveModelFile(f) ==
    /\ disk[f].exists
    /\ disk' = [disk EXCEPT ![f] = EmptyDisk[f]]
    /\ UNCHANGED <<mem, lastSearch, builds, lastStartup>>
    /\ OutsideStartup

(***************************************************************************)
(* SpecStartup: a fresh installation; process starts over any small data   *)
(* directory, searches between them, files going missing.                  *)
(***************************************************************************)
InitStartup ==
    /\ builds = 0
    /\ lastStartup = NoStartup
    /\ MemIdle
    /\ SearchIdle
    /\ AddIdle
    /\ RegIdle
    /\ ThreadsIdle
    /\ RerankIdle
    /\ MatchIdle
    /\ RebuildIdle
    /\ FeaturesIdle
    /\ RestIdle

NextStartup ==
    \/ \E dir \in DataDirectories : LoadOrGeneratePersistentData(dir)
    \/ \E f \in ArtifactFiles : RemoveModelFile(f)
    \/ \E img \in QueryImages, k \in 1 .. MaxK : SmartSearchTurtles(img, k)

SpecStartup == InitStartup /\ [][NextStartup]_vars

(***************************************************************************)
(* SpecPersist: the same startup with the rebuild split at its file        *)
(* writes.  rebuild_faiss_index_from_folders writes vlad_vocab.pkl (inside *)
(* train_vocabulary_incremental), then global_vlad_array.npy, metadata.pkl *)
(* and turtles.index, each at its final path.  The process can be killed   *)
(* between any two writes, and the next start loads what is on disk.       *)
(***************************************************************************)
\* The locals the rebuild holds once the vectors are generated (step 2).
RebuildLocals(dir, kmeans_vocab) ==
    LET described == SelectSeq(dir, HasDescriptors)
    IN  [pc |-> "save_vlad",
         kmeans_vocab |-> kmeans_vocab,
         all_vlad_vectors |-> [i \in 1 .. Len(described) |-> described[i].vec],
         final_metadata |-> [i \in 1 .. Len(described) |->
                                [filename |-> <<"npz", described[i].tid>>,
                                 original_index |-> i - 1,
                                 site_id |-> described[i].tid,
                                 location |-> described[i].loc]]]

\* load_or_generate_persistent_data up to the first file the rebuild writes:
\* the three loads, the return when vocabulary and index loaded, else the
\* health check, the training (which dumps the vocabulary) and the encoding.
LoadOrGenerateBegin(dir) ==
    LET first == LoadResources(disk)
        missing == ~disk.vocab.exists \/ ~disk.index.exists \/ ~disk.metadata.exists
        existing == load_vocabulary(disk)
        kmeans_vocab == IF Fitted(existing) THEN existing
                        ELSE train_vocabulary_incremental(dir, builds + 1)
        trained == IF Fitted(existing) THEN disk
                   ELSE [disk EXCEPT !.vocab = kmeans_vocab]
        locals == RebuildLocals(dir, kmeans_vocab)
    IN  /\ rebuild.pc = "idle"
        /\ ~VocabAndIndexLoaded(first) => builds < MaxBuilds
        /\ IF VocabAndIndexLoaded(first)
           THEN /\ mem' = first
                /\ lastStartup' = [called |-> TRUE, missing |-> missing,
                                   rebuilt |-> FALSE, encoded |-> "none"]
                /\ UNCHANGED <<disk, builds, rebuild>>
           ELSE /\ disk' = trained
                /\ builds' = builds + 1
                /\ IF ~Fitted(kmeans_vocab) \/ locals.all_vlad_vectors = <<>>
                   THEN /\ rebuild' = NoRebuild
                        /\ mem' = LoadResources(trained)
                        /\ lastStartup' = [called |-> TRUE, missing |-> missing,
                                           rebuilt |-> TRUE, encoded |-> "none"]
                   ELSE /\ rebuild' = locals
                        /\ mem' = first
                        /\ lastStartup' = [called |-> FALSE, missing |-> missing,
                                           rebuilt |-> TRUE,
                                           encoded |-> EncodedWith(kmeans_vocab)]
        /\ lastSearch' = NoSearch
        /\ UNCHANGED <<addVars, lastReg, thrVars, rerankVars, matchVars, featVars, restVars>>

\* np.save(vlad_array_save_path, vlad_array)
RebuildSaveVladArray ==
    /\ rebuild.pc = "save_vlad"
    /\ disk' = [disk EXCEPT !.vlad_array = [exists |-> TRUE,
                                            rows |-> rebuild.all_vlad_vectors,
                                            gen |-> builds]]
    /\ rebuild' = [rebuild EXCEPT !.pc = "dump_metadata"]
    /\ UNCHANGED <<mem, lastSearch, builds, lastStartup>>
    /\ UNCHANGED <<addVars, lastReg, thrVars, rerankVars, matchVars, featVars, restVars>>

\* joblib.dump(final_metadata, metadata_save_path)
RebuildDumpMetadata ==
    /\ rebuild.pc = "dump_metadata"
    /\ disk' = [disk EXCEPT !.metadata = [exists |-> TRUE,
                                          recs |-> rebuild.final_metadata,
                                          gen |-> builds]]
    /\ rebuild' = [rebuild EXCEPT !.pc = "write_index"]
    /\ UNCHANGED <<mem, lastSearch, builds, lastStartup>>
    /\ UNCHANGED <<addVars, lastReg, thrVars, rerankVars, matchVars, featVars, restVars>>

\* faiss.write_index(global_index, index_save_path), the return of the rebuild
\* and the three loads that follow it.
RebuildWriteIndex ==
    /\ rebuild.pc = "write_index"
    /\ disk' = [disk EXCEPT !.index =
                    [exists |-> TRUE,
                     vecs |-> initialize_faiss_index(rebuild.all_vlad_vectors),
                     gen |-> builds, enc |-> rebuild.kmeans_vocab.gen]]
    /\ mem' = LoadResources(disk')
    /\ lastStartup' = [lastStartup EXCEPT !.called = TRUE]
    /\ rebuild' = NoRebuild
    /\ UNCHANGED <<lastSearch, builds>>
    /\ UNCHANGED <<addVars, lastReg, thrVars, rerankVars, matchVars, featVars, restVars>>

\* The process is killed while the rebuild runs: its memory is gone, the files
\* stay as the writes so far left them.
ProcessKilled ==
    /\ rebuild.pc # "idle"
    /\ rebuild' = NoRebuild
    /\ mem' = EmptyDisk
    /\ lastStartup' = NoStartup
    /\ lastSearch' = NoSearch
    /\ UNCHANGED <<disk, builds>>
    /\ UNCHANGED <<addVars, lastReg, thrVars, rerankVars, matchVars, featVars, restVars>>

NextPersist ==
    \/ \E dir \in DataDirectories : LoadOrGenerateBegin(dir)
    \/ RebuildSaveVladArray
    \/ RebuildDumpMetadata
    \/ RebuildWriteIndex
    \/ ProcessKilled
    \/ \E f \in ArtifactFiles : RemoveModelFile(f)

SpecPersist == InitStartup /\ [][NextPersist]_vars

(***************************************************************************)
(* SpecLive: one backend process after the other over the same files       *)
(* (backend/image_processing.py).  A start runs                            *)
(* load_or_generate_persistent_data, which fills GLOBAL_RESOURCES from the *)
(* four files and calls generate_clustering_and_index when its truth test  *)
(* of the four values fails; the process then serves registrations, which  *)
(* work on the files, and searches, which work on GLOBAL_RESOURCES.        *)
(***************************************************************************)
\* The four loads of lines 159-162 (173-176 after a generation).
LoadAllResources(d) ==
    [vocab |-> load_vocabulary(d),
     index |-> load_faiss_index(d),
     metadata |-> [d.metadata EXCEPT !.recs = load_metadata(d)],
     vlad_array |-> load_vlad_array(d)]

\* all(GLOBAL_RESOURCES.values()), the values taken in the order of the
\* dictionary: index, vocabulary, metadata list, vector array.  A missing file
\* or an empty list ends the test with False.  The truth value of the loaded
\* array is asked last, and numpy raises ValueError for an array of more than
\* one element; initialize_manager (app.py) catches the exception and the
\* server goes on with GLOBAL_RESOURCES as the loads left it.
AllLoaded(m) ==
    IF ~m.index.exists \/ ~m.vocab.exists \/ m.metadata.recs = <<>> THEN "False"
    ELSE IF ~m.vlad_array.exists \/ m.vlad_array.rows = <<>> THEN "False"
    ELSE "ValueError"

\* A process start.  npz is the listing of the descriptor directory.
BackendLoadOrGenerate(npz) ==
    LET first == LoadAllResources(disk)
        missing == \E f \in {"vocab", "index", "metadata", "vlad_array"} : ~disk[f].exists
        generated == generate_clustering_and_index(npz, disk, builds + 1)
    IN  /\ AllLoaded(first) = "False" => builds < MaxBuilds
        /\ IF AllLoaded(first) # "False"
           THEN /\ mem' = first
                /\ lastStartup' = [called |-> TRUE, missing |-> missing,
                                   rebuilt |-> FALSE, encoded |-> "none"]
                /\ UNCHANGED <<disk, builds>>
           ELSE /\ disk' = generated
                /\ mem' = LoadAllResources(generated)
                /\ builds' = builds + 1
                /\ lastStartup' = [called |-> TRUE, missing |-> missing,
                                   rebuilt |-> TRUE,
                                   encoded |-> IF load_all_descriptors(npz) = <<>>
                                               THEN "none" ELSE "fitted"]
        /\ lastReg' = NoReg
        /\ lastSearch' = NoSearch
        /\ UNCHANGED <<addVars, thrVars, rerankVars, matchVars, rbVars, featVars, restVars>>

\* The listings of the descriptor directory: empty, one readable file, a
\* readable file beside an unreadable one.
NpzListings == {<<>>, <<0>>, <<50, Corrupt>>}

LiveUploads == {"b.png", "blank.jpg"}
MaxLiveMeta == 2

InitLive ==
    /\ builds = 0
    /\ lastStartup = NoStartup
    /\ MemIdle
    /\ SearchIdle
    /\ AddIdle
    /\ RegIdle
    /\ ThreadsIdle
    /\ RerankIdle
    /\ MatchIdle
    /\ RebuildIdle
    /\ FeaturesIdle
    /\ RestIdle

\* Requests are served by a process that has started.
NextLive ==
    \/ \E npz \in NpzListings : BackendLoadOrGenerate(npz)
    \/ \E img \in LiveUploads :
        /\ lastStartup.called
        /\ Len(disk.metadata.recs) < MaxLiveMeta
        /\ RegisterNewSiteFromUpload(img, "Kansas")
    \/ \E img \in LiveUploads :
        /\ lastStartup.called
        /\ Len(disk.metadata.recs) < MaxLiveMeta
        /\ RegisterNewTurtle(img)
    \/ \E img \in LiveUploads :
        /\ lastStartup.called
        /\ SmartSearchBackend(img, 1)
    \/ \E f \in ArtifactFiles : RemoveModelFile(f)

SpecLive == InitLive /\ [][NextLive]_vars

(***************************************************************************)
(* compute_vlad (backend/vlad_utils.py).  A descriptor and a centroid are   *)
(* tuples of D integers, so the VLAD vector has D entries per centroid.    *)
(* The float arithmetic is carried out in fixed point: square roots in     *)
(* units of 1e-3, the normalised vector in units of 1e-4, both rounded     *)
(* towards zero.  A division of zero by zero gives nan in numpy (a         *)
(* warning, no exception).                                                 *)
(***************************************************************************)
RootScale == 1000
UnitScale == 10000

RECURSIVE ISqrtBetween(_, _, _)
ISqrtBetween(n, lo, hi) ==
    IF lo >= hi THEN lo
    ELSE LET mid == (lo + hi + 1) \div 2
         IN  IF mid * mid <= n THEN ISqrtBetween(n, mid, hi)
             ELSE ISqrtBetween(n, lo, mid - 1)

\* The integer part of the square root of n, for n below 4e8.
ISqrt(n) == ISqrtBetween(n, 0, 20000)

Abs(x) == IF x < 0 THEN 0 - x ELSE x
Sign(x) == IF x < 0 THEN 0 - 1 ELSE IF x > 0 THEN 1 ELSE 0

RECURSIVE SumSeq(_)
SumSeq(s) == IF s = <<>> THEN 0 ELSE s[1] + SumSeq(Tail(s))

\* Stands for nan in an entry of the returned vector.
NaN == 0 - 2 * UnitScale

\* descriptors.shape[1]
Width(centers) == Len(centers[1])

SqDistVec(a, b) == SumSeq([d \in 1 .. Len(a) |-> (a[d] - b[d]) * (a[d] - b[d])])

\* kmeans.predict: the nearest centroid, the first one on a tie.
Predict(descriptor, centers) ==
    CHOOSE i \in 1 .. Len(centers) :
        \A j \in 1 .. Len(centers) :
            \/ SqDistVec(descriptor, centers[i]) < SqDistVec(descriptor, centers[j])
            \/ /\ SqDistVec(descriptor, centers[i]) = SqDistVec(descriptor, centers[j])
               /\ i <= j

\* vlad = np.zeros((num_clusters, dim)); vlad[i] = np.sum(descriptors[
\* assignments == i] - centers[i], axis=0): a centroid without descriptors
\* keeps its row of zeros.
ResidualSums(descriptors, centers) ==
    [i \in 1 .. Len(centers) |->
        [d \in 1 .. Width(centers) |->
            SumSeq([n \in 1 .. Len(descriptors) |->
                        IF Predict(descriptors[n], centers) = i
                        THEN descriptors[n][d] - centers[i][d] ELSE 0])]]

\* vlad.flatten(): row after row
Flatten(blocks) ==
    [e \in 1 .. (Len(blocks) * Len(blocks[1])) |->
        blocks[((e - 1) \div Len(blocks[1])) + 1][((e - 1) % Len(blocks[1])) + 1]]

\* np.sign(vlad) * np.sqrt(np.abs(vlad)), in units of 1e-3
PowerNormalised(vlad) ==
    [i \in 1 .. Len(vlad) |->
        Sign(vlad[i]) * ISqrt(Abs(vlad[i]) * RootScale * RootScale)]

\* np.linalg.norm
L2Norm(v) == ISqrt(SumSeq([i \in 1 .. Len(v) |-> v[i] * v[i]]))

\* The returned vector in units of 1e-4, or nan in every entry.
compute_vlad(descriptors, centers) ==
    LET vlad == PowerNormalised(Flatten(ResidualSums(descriptors, centers)))
        norm == L2Norm(vlad)
    IN  IF norm = 0
        THEN [nan |-> TRUE, vlad |-> [i \in 1 .. Len(vlad) |-> NaN]]
        ELSE [nan |-> FALSE,
              vlad |-> [i \in 1 .. Len(vlad) |->
                           Sign(vlad[i]) * ((Abs(vlad[i]) * UnitScale) \div norm)]]

ComputeVlad(descriptors, centers) ==
    /\ LET r == compute_vlad(descriptors, centers)
       IN  lastVlad' = [called |-> TRUE, descriptors |-> descriptors,
                        centers |-> centers, nan |-> r.nan, vlad |-> r.vlad]
    /\ UNCHANGED <<npz_files, lastSift>>
    /\ UNCHANGED <<addVars, regVars, thrVars, memVars, searchVars, rerankVars,
                   matchVars, startVars, rbVars, restVars>>

(***************************************************************************)
(* SpecVlad: compute_vlad over every descriptor set of one to              *)
(* MaxDescriptors descriptors and three fitted vocabularies: two of two    *)
(* centroids on one axis, one of three centroids on two axes.              *)
(***************************************************************************)
MaxDescriptors == 3

DescriptorValues == {<<8>>, <<10>>, <<12>>, <<28>>, <<30>>, <<33>>}
WideDescriptorValues == {<<0, 0>>, <<1, 1>>, <<9, 1>>, <<11, 0>>}
WideVocabulary == << <<0, 0>>, <<10, 0>>, <<0, 10>> >>
Vocabularies == {<< <<10>>, <<30>> >>, << <<9>>, <<31>> >>, WideVocabulary}

\* The descriptor sets of the width the vocabulary was fitted on.
DescriptorSets(centers) ==
    LET values == IF Width(centers) = 1 THEN DescriptorValues
                  ELSE WideDescriptorValues
    IN  UNION {[1 .. n -> values] : n \in 1 .. MaxDescriptors}

InitVlad ==
    /\ AddIdle
    /\ RegIdle
    /\ ThreadsIdle
    /\ MemIdle
    /\ SearchIdle
    /\ StartIdle
    /\ RerankIdle
    /\ MatchIdle
    /\ RebuildIdle
    /\ FeaturesIdle
    /\ RestIdle

NextVlad ==
    \E centers \in Vocabularies : \E descriptors \in DescriptorSets(centers) :
        /\ ~lastVlad.called
        /\ ComputeVlad(descriptors, centers)

SpecVlad == InitVlad /\ [][NextVlad]_vars

(***************************************************************************)
(* process_image_through_SIFT (the same code in backend/image_processing.py *)
(* and backend/turtles/image_processing.py).  A path is a stem and an      *)
(* extension; a descriptor file is known by the number of keypoints and of *)
(* descriptor rows it holds.  Whether np.savez gets the archive onto the   *)
(* disk is the file system's choice.                                       *)
(***************************************************************************)
\* SIFT.detectAndCompute: the number of keypoints, one descriptor row each
DetectAndCompute(img) ==
    CASE img = "a.jpg" -> 2
      [] img = "b.png" -> 1
      [] OTHER -> 0

\* np.savez appends ".npz" to a file name that does not end with it
SavezPath(output_path) ==
    IF output_path.ext = ".npz" THEN output_path
    ELSE [stem |-> output_path.stem \o output_path.ext, ext |-> ".npz"]

DescriptorFile(n) == [exists |-> TRUE, keypoints |-> n, descriptors |-> n]

\* What a save that broke off half-way leaves: an archive without its arrays
PartialFile == [exists |-> TRUE, keypoints |-> 0, descriptors |-> 0]

SaveOutcomes == {"written", "open failed", "write failed"}

\* imgGray is None
SiftUnreadable(image) == ~Readable(image)

\* descriptors is None or len(descriptors) == 0
NoDescriptorsFoundUnchecked(image) == FALSE
NoDescriptorsFound(image) == DetectAndCompute(image) = 0

\* The returned pair and the files afterwards.
process_image_through_SIFT(files, image, output_path, save) ==
    LET failed == [ok |-> FALSE, none |-> TRUE, descriptors |-> 0]
    IN  IF SiftUnreadable(image)
        THEN [ret |-> failed, files |-> files, save |-> "not reached"]
        ELSE IF NoDescriptorsFound(image)
        THEN [ret |-> failed, files |-> files, save |-> "not reached"]
        ELSE IF save = "written"
        THEN [ret |-> [ok |-> TRUE, none |-> FALSE,
                       descriptors |-> DetectAndCompute(image)],
              files |-> [files EXCEPT ![SavezPath(output_path)] =
                             DescriptorFile(DetectAndCompute(image))],
              save |-> save]
        ELSE IF save = "write failed"
        THEN [ret |-> failed,
              files |-> [files EXCEPT ![SavezPath(output_path)] = PartialFile],
              save |-> save]
        ELSE [ret |-> failed, files |-> files, save |-> save]

ProcessImageThroughSIFT(image, output_path, save) ==
    /\ LET r == process_image_through_SIFT(npz_files, image, output_path, save)
       IN  /\ npz_files' = r.files
           /\ lastSift' = [called |-> TRUE, image |-> image,
                           output_path |-> output_path, before |-> npz_files,
                           save |-> r.save, ok |-> r.ret.ok, none |-> r.ret.none,
                           descriptors |-> r.ret.descriptors]
    /\ UNCHANGED lastVlad
    /\ UNCHANGED <<addVars, regVars, thrVars, memVars, searchVars, rerankVars,
                   matchVars, startVars, rbVars, restVars>>

(***************************************************************************)
(* SpecSift: process_image_through_SIFT called again and again, for        *)
(* readable, blank and unreadable images, with an output path that ends    *)
(* with ".npz" (turtle_manager.py, identification/utils.py) and one that   *)
(* does not (the ".jpeg" upload of register_new_turtle).  A later call     *)
(* finds the files earlier calls have written.                             *)
(***************************************************************************)
SiftImages == {"a.jpg", "b.png", "blank.jpg", "missing.jpg"}

OutputPaths == {[stem |-> "img_1_orig", ext |-> ".npz"], [stem |-> "b", ext |-> ".jpeg"]}

SiftPaths == OutputPaths \cup {SavezPath(p) : p \in OutputPaths}

InitSift ==
    /\ AddIdle
    /\ RegIdle
    /\ ThreadsIdle
    /\ MemIdle
    /\ SearchIdle
    /\ StartIdle
    /\ RerankIdle
    /\ MatchIdle
    /\ RebuildIdle
    /\ lastVlad = NoVladCall
    /\ lastSift = NoSift
    /\ npz_files = [p \in SiftPaths |-> NoFile]
    /\ RestIdle

NextSift ==
    \E image \in SiftImages, output_path \in OutputPaths, save \in SaveOutcomes :
        ProcessImageThroughSIFT(image, output_path, save)

SpecSift == InitSift /\ [][NextSift]_vars

(***************************************************************************)
(* The review queue of TurtleManager (backend/turtle_manager.py).  A       *)
(* packet is a folder inside data/Review_Queue named after its request id, *)
(* "Req_<second>_<file name>"; it holds the query image (and a             *)
(* candidate_matches folder and metadata.json, which no method reads       *)
(* back).  upload numbers the create_review_packet calls, so that two      *)
(* files of the same name can be told apart by what they hold.             *)
(***************************************************************************)
MaxClock == 1
MaxUploads == 3

\* f"Req_{int(time.time())}_{os.path.basename(query_image_path)}"
RequestId(time, name) == [time |-> time, name |-> name]

\* f.lower().endswith(('.jpg', '.png', '.jpeg'))
IsImageName(f) == f \in {"a.jpg", "b.png"}

PacketDirs(queue) == {p.request_id : p \in queue}
PacketAt(queue, request_id) == CHOOSE p \in queue : p.request_id = request_id

\* os.makedirs(packet_dir, exist_ok=True); shutil.copy2(query_image_path, ...):
\* a folder that is already there is used again and a file of the same name
\* is overwritten.
WithPacket(queue, request_id, filename, upload) ==
    {p \in queue : p.request_id # request_id}
        \cup {[request_id |-> request_id, filename |-> filename, upload |-> upload]}

\* One entry for every folder inside Review_Queue.
get_review_queue(queue) == PacketDirs(queue)

create_review_packet(m, queue, time, filename, upload) ==
    LET request_id == RequestId(time, filename)
        results == smart_search_turtles(m, filename, Returned)
    IN  [queue |-> WithPacket(queue, request_id, filename, upload),
         request_id |-> request_id,
         raised |-> results.error]

CreateReviewPacket(filename) ==
    /\ Len(uploads) < MaxUploads
    /\ LET r == create_review_packet(mem, review_queue, clock, filename,
                                     Len(uploads) + 1)
       IN  /\ review_queue' = r.queue
           /\ uploads' = Append(uploads, [request_id |-> r.request_id,
                                          approved |-> FALSE])
           /\ lastReview' = [NoReview EXCEPT !.called = TRUE,
                                             !.op = "create_review_packet",
                                             !.request_id = r.request_id,
                                             !.before = review_queue,
                                             !.ok = r.raised = NoError,
                                             !.raised = r.raised,
                                             !.query_image = filename]
    /\ UNCHANGED <<clock, loose_images>>
    /\ OutsideReview

\* The first file of the packet with an image extension, if there is one.
QueryImageOf(packet) ==
    IF packet.filename # NoKey /\ IsImageName(packet.filename)
    THEN packet.filename ELSE NoKey

\* What shutil.rmtree leaves of the packet: nothing, or, when it raises,
\* the whole folder or the folder without its files.
RmtreeOutcomes == {"removed", "failed", "failed half-way"}

\* not os.path.exists(packet_dir)
RequestMissing(queue, request_id) == request_id \notin PacketDirs(queue)

\* The returned value, the queue and the loose_images folders afterwards.
approve_review_packet(queue, loose, request_id, match_turtle_id, new_location, rmtree) ==
    IF RequestMissing(queue, request_id)
    THEN [ok |-> FALSE, message |-> "Request not found", queue |-> queue,
          loose |-> loose, query_image |-> NoKey]
    ELSE LET packet == PacketAt(queue, request_id)
             query_image == QueryImageOf(packet)
         IN  IF query_image = NoKey
             THEN [ok |-> FALSE, message |-> "Error: No image found in packet.",
                   queue |-> queue, loose |-> loose, query_image |-> NoKey]
             ELSE \* match_turtle_id and new_location only choose what is printed
                  IF rmtree = "removed"
                  THEN [ok |-> TRUE, message |-> "Processed successfully",
                        queue |-> queue \ {packet}, loose |-> loose,
                        query_image |-> query_image]
                  ELSE [ok |-> FALSE, message |-> "rmtree error",
                        queue |-> IF rmtree = "failed" THEN queue
                                  ELSE WithPacket(queue, request_id, NoKey, 0),
                        loose |-> loose, query_image |-> query_image]

ApproveReviewPacket(request_id, match_turtle_id, new_location, rmtree) ==
    /\ LET r == approve_review_packet(review_queue, loose_images, request_id,
                                      match_turtle_id, new_location, rmtree)
       IN  /\ review_queue' = r.queue
           /\ loose_images' = r.loose
           /\ uploads' = [n \in 1 .. Len(uploads) |->
                             IF r.ok /\ uploads[n].request_id = request_id
                             THEN [uploads[n] EXCEPT !.approved = TRUE]
                             ELSE uploads[n]]
           /\ lastReview' = [NoReview EXCEPT !.called = TRUE,
                                             !.op = "approve_review_packet",
                                             !.request_id = request_id,
                                             !.match_turtle_id = match_turtle_id,
                                             !.new_location = new_location,
                                             !.before = review_queue,
                                             !.ok = r.ok,
                                             !.message = r.message,
                                             !.query_image = r.query_image]
    /\ UNCHANGED clock
    /\ OutsideReview

GetReviewQueue ==
    /\ lastReview' = [NoReview EXCEPT !.called = TRUE, !.op = "get_review_queue",
                                      !.before = review_queue,
                                      !.ok = TRUE,
                                      !.queue = get_review_queue(review_queue)]
    /\ UNCHANGED <<clock, review_queue, loose_images, uploads>>
    /\ OutsideReview

\* f"Obs_{int(time.time())}_{filename}" inside <turtle folder>/loose_images
add_observation_to_turtle(loose, time, packet, turtle_id) ==
    IF turtle_id \notin DOMAIN loose
    THEN [ok |-> FALSE, message |-> "Could not find folder", loose |-> loose]
    ELSE [ok |-> TRUE, message |-> "dest_path",
          loose |-> [loose EXCEPT ![turtle_id] =
                        {o \in @ : ~(o.time = time /\ o.name = packet.filename)}
                            \cup {[time |-> time, name |-> packet.filename,
                                   upload |-> packet.upload]}]]

\* The "Match!" button: the image of a packet is copied to a turtle's folder.
AddObservationToTurtle(packet, turtle_id) ==
    /\ packet \in review_queue
    /\ QueryImageOf(packet) # NoKey
    /\ LET r == add_observation_to_turtle(loose_images, clock, packet, turtle_id)
       IN  /\ loose_images' = r.loose
           /\ lastReview' = [NoReview EXCEPT !.called = TRUE,
                                             !.op = "add_observation_to_turtle",
                                             !.request_id = packet.request_id,
                                             !.match_turtle_id = turtle_id,
                                             !.before = review_queue,
                                             !.ok = r.ok,
                                             !.message = r.message,
                                             !.query_image = packet.filename]
    /\ UNCHANGED <<clock, review_queue, uploads>>
    /\ OutsideReview

\* The process ends and TurtleManager() is constructed again: the folders
\* are made with exist_ok=True, so what is inside them stays, and the
\* resources are loaded from the same files as before.
TurtleManagerInit ==
    /\ lastReview' = [NoReview EXCEPT !.called = TRUE, !.op = "TurtleManager",
                                      !.before = review_queue, !.ok = TRUE]
    /\ UNCHANGED <<clock, review_queue, loose_images, uploads>>
    /\ OutsideReview

\* A second passes.
Tick ==
    /\ clock < MaxClock
    /\ clock' = clock + 1
    /\ UNCHANGED <<review_queue, loose_images, uploads, lastReview>>
    /\ OutsideReview

(***************************************************************************)
(* SpecReview: uploads of two file names are put into the queue, looked    *)
(* at, approved (for a known turtle, a new location or neither) and        *)
(* copied to a turtle's folder, in any order and at any second, with       *)
(* restarts of the process in between.                                     *)
(***************************************************************************)
ReviewUploads == {"a.jpg", "c.gif"}
TurtleFolders == {"T001"}
UnknownRequest == RequestId(0, "nope.jpg")

InitReview ==
    /\ mem \in {EmptyDisk, LoadedResources(<<0, 50>>, <<1, 2>>)}
    /\ clock = 0
    /\ review_queue = {}
    /\ loose_images = [t \in TurtleFolders |-> {}]
    /\ uploads = <<>>
    /\ lastReview = NoReview
    /\ BesidesReviewIdle
    /\ AddIdle
    /\ RegIdle
    /\ ThreadsIdle
    /\ SearchIdle
    /\ StartIdle
    /\ RerankIdle
    /\ MatchIdle
    /\ RebuildIdle
    /\ FeaturesIdle

NextReview ==
    \/ \E filename \in ReviewUploads : CreateReviewPacket(filename)
    \/ \E request_id \in PacketDirs(review_queue) \cup {UnknownRequest}
                             \cup {uploads[n].request_id : n \in 1 .. Len(uploads)},
          match_turtle_id \in {NoKey} \cup TurtleFolders,
          new_location \in {NoKey, "Kansas/SiteA"},
          rmtree \in RmtreeOutcomes :
            ApproveReviewPacket(request_id, match_turtle_id, new_location, rmtree)
    \/ GetReviewQueue
    \/ \E packet \in review_queue, turtle_id \in TurtleFolders \cup {"T999"} :
            AddObservationToTurtle(packet, turtle_id)
    \/ TurtleManagerInit
    \/ Tick

SpecReview == InitReview /\ [][NextReview]_vars

(***************************************************************************)
(* _process_single_turtle (backend/turtle_manager.py) for one location     *)
(* folder and one turtle id.  ref_data holds the reference images, one per *)
(* extension (<id>.jpg, <id>.png), each known by the source it was copied  *)
(* from, and the descriptor file <id>.npz.                                 *)
(***************************************************************************)
MaxCalls == 3

RefExtensions == {".jpg", ".png"}

\* os.path.splitext(source_path)[1]
ExtOf(source_path) == IF source_path = "b.png" THEN ".png" ELSE ".jpg"

\* os.path.join(ref_dir, f"{turtle_id}.npz")
DestNpzPath == [stem |-> "T101", ext |-> ".npz"]

\* A plausible slip: the descriptor file is not looked for.
AlreadyProcessedUnchecked(ref) == FALSE

\* os.path.exists(dest_npz_path)
AlreadyProcessed(ref) == ref.npz.exists

\* The returned status and the folder afterwards.  shutil.copy2 raises for a
\* source that is not there.
process_single_turtle(ref, source_path, save) ==
    IF AlreadyProcessed(ref)
    THEN [status |-> "skipped", success |-> FALSE, ref |-> ref]
    ELSE IF source_path = "missing.jpg"
    THEN [status |-> "FileNotFoundError", success |-> FALSE, ref |-> ref]
    ELSE LET copied == [ref.images EXCEPT ![ExtOf(source_path)] = source_path]
             sift == process_image_through_SIFT(DestNpzPath :> ref.npz, source_path,
                                                DestNpzPath, save)
             after == [images |-> copied, npz |-> sift.files[DestNpzPath]]
         IN  IF sift.ret.ok
             THEN [status |-> "created", success |-> TRUE, ref |-> after]
             ELSE [status |-> "error", success |-> FALSE, ref |-> after]

ProcessSingleTurtle(source_path, save) ==
    /\ Len(processed) < MaxCalls
    /\ LET r == process_single_turtle(ref_data, source_path, save)
       IN  /\ ref_data' = r.ref
           /\ processed' = Append(processed,
                                  [source |-> source_path, status |-> r.status,
                                   success |-> r.success,
                                   changed |-> r.ref # ref_data])
    /\ OutsideRef

(***************************************************************************)
(* SpecIngest: ingest_flash_drive and process_manual_upload hand up to     *)
(* MaxCalls images of the same turtle id to _process_single_turtle, one    *)
(* after the other, for a location folder that starts empty.               *)
(***************************************************************************)
IngestSources == {"a.jpg", "b.png", "blank.jpg", "missing.jpg"}

InitIngest ==
    /\ ref_data = [images |-> [e \in RefExtensions |-> NoKey], npz |-> NoFile]
    /\ processed = <<>>
    /\ BesidesRefIdle
    /\ AddIdle
    /\ RegIdle
    /\ ThreadsIdle
    /\ MemIdle
    /\ SearchIdle
    /\ StartIdle
    /\ RerankIdle
    /\ MatchIdle
    /\ RebuildIdle
    /\ FeaturesIdle

NextIngest ==
    \E source_path \in IngestSources, save \in SaveOutcomes :
        ProcessSingleTurtle(source_path, save)

SpecIngest == InitIngest /\ [][NextIngest]_vars

(***************************************************************************)
(* train_vocabulary_incremental (backend/turtles/image_processing.py),     *)
(* one loop iteration in two steps: the file is loaded, then the batch is  *)
(* flushed if it is due.  A descriptor file is known by its kind and the   *)
(* number of descriptor rows it holds; the batch and the partial_fit calls *)
(* are kept as lists of positions in all_npz_files (0-based, as i).        *)
(***************************************************************************)
MaxFiles == 3

\* num_clusters: 64 in the code, the two centroids of the model here
NumClusters == 2

\* The rows of a file np.load can read; "wide" descriptors have another
\* width than the SIFT ones (np.vstack and partial_fit refuse the mix).
NpzKinds ==
    {[kind |-> "sift", rows |-> r] : r \in 1 .. MaxDescriptors}
        \cup {[kind |-> "sift", rows |-> 0], [kind |-> "unreadable", rows |-> 0],
              [kind |-> "wide", rows |-> NumClusters]}

\* lines 112-117: the except clause swallows what np.load raises
Loaded(file) == file.kind # "unreadable" /\ file.rows > 0

\* A plausible slip: the last, partly filled batch is never flushed.
BatchDueWhenFull(batch, batch_size, i, n) == Len(batch) >= batch_size

\* len(current_batch_descriptors) >= batch_size or i == len(all_npz_files) - 1
BatchDue(batch, batch_size, i, n) == Len(batch) >= batch_size \/ i = n - 1

\* current_batch_descriptors.append(descriptors): the whole array of the file
Contributed(file) == file.rows

RowsOf(files, batch) ==
    SumSeq([j \in 1 .. Len(batch) |-> Contributed(files[batch[j] + 1])])
KindsOf(files, batch) == {files[batch[j] + 1].kind : j \in 1 .. Len(batch)}

\* np.vstack needs one width inside the batch; partial_fit needs the width
\* of the batches before it and, the first time, at least n_clusters rows.
FitError(files, fits, batch) ==
    IF Cardinality(KindsOf(files, batch)) > 1 THEN "ValueError"
    ELSE IF fits # <<>> /\ KindsOf(files, batch) # KindsOf(files, fits[1])
    THEN "ValueError"
    ELSE IF fits = <<>> /\ RowsOf(files, batch) < NumClusters THEN "ValueError"
    ELSE NoError

TrainBegin(all_npz_files, batch_size) ==
    /\ train.pc = "idle"
    /\ train' = [NoTraining EXCEPT !.pc = IF all_npz_files = <<>> THEN "save"
                                         ELSE "load",
                                   !.all_npz_files = all_npz_files,
                                   !.batch_size = batch_size]
    /\ OutsideTrain

TrainLoad ==
    /\ train.pc = "load"
    /\ LET file == train.all_npz_files[train.i + 1]
       IN  train' = [train EXCEPT
                        !.pc = "flush",
                        !.current_batch_descriptors =
                            IF Loaded(file) THEN Append(@, train.i) ELSE @]
    /\ OutsideTrain

TrainFlush ==
    /\ train.pc = "flush"
    /\ LET n == Len(train.all_npz_files)
           batch == train.current_batch_descriptors
           due == BatchDue(batch, train.batch_size, train.i, n) /\ batch # <<>>
           error == IF due THEN FitError(train.all_npz_files, train.fits, batch)
                    ELSE NoError
       IN  train' = IF error # NoError
                    THEN [train EXCEPT !.pc = "raised", !.error = error]
                    ELSE [train EXCEPT
                             !.pc = IF train.i = n - 1 THEN "save" ELSE "load",
                             !.i = IF train.i = n - 1 THEN @ ELSE @ + 1,
                             !.fits = IF due THEN Append(@, batch) ELSE @,
                             !.current_batch_descriptors = IF due THEN <<>> ELSE @]
    /\ OutsideTrain

\* joblib.dump(kmeans, vocab_save_path); return kmeans
TrainSave ==
    /\ train.pc = "save"
    /\ train' = [train EXCEPT !.pc = "done"]
    /\ OutsideTrain

\* process_new_image of the same file, for an image SIFT found descriptors
\* in: compute_vlad(descriptors, kmeans_vocab) gets every row.
ProcessNewImage(descriptors, centers) == ComputeVlad(descriptors, centers)

(***************************************************************************)
(* SpecTrain: training over every list of up to MaxFiles descriptor files  *)
(* with a batch size of one or two files, and, at encode time,             *)
(* process_new_image handing the descriptors of a query image to           *)
(* compute_vlad.                                                           *)
(***************************************************************************)
BatchSizes == {1, 2}

InitTrain ==
    /\ train = NoTraining
    /\ BesidesTrainIdle
    /\ AddIdle
    /\ RegIdle
    /\ ThreadsIdle
    /\ MemIdle
    /\ SearchIdle
    /\ StartIdle
    /\ RerankIdle
    /\ MatchIdle
    /\ RebuildIdle
    /\ FeaturesIdle

NextTrain ==
    \/ \E all_npz_files \in SeqsUpTo(NpzKinds, MaxFiles), batch_size \in BatchSizes :
           /\ ~lastVlad.called
           /\ TrainBegin(all_npz_files, batch_size)
    \/ TrainLoad
    \/ TrainFlush
    \/ TrainSave
    \/ \E centers \in Vocabularies : \E descriptors \in DescriptorSets(centers) :
           /\ ~lastVlad.called
           /\ train.pc = "idle"
           /\ ProcessNewImage(descriptors, centers)

SpecTrain == InitTrain /\ [][NextTrain]_vars

(***************************************************************************)
(* upload_photo for an admin (backend/app.py) followed by                  *)
(* TurtleManager.search_for_matches, one file operation per step, on two   *)
(* request threads.  The upload is saved under its own name inside         *)
(* UPLOAD_FOLDER and the mirrored image under TEMP_MIRROR_ plus that name   *)
(* inside the review queue, so two uploads of one name share both paths.   *)
(***************************************************************************)
UploadNames == {"a.jpg", "b.png"}

Pictures == [turtle : {"T1", "T2"}, facing : {"left", "right"}]

\* cv.flip(img, 1)
Flip(picture) ==
    [picture EXCEPT !.facing = IF @ = "left" THEN "right" ELSE "left"]

\* One pass, smart_search and then the verifier, over the picture a file
\* holds.  A search writes none of the resources a pass reads, so the answer
\* depends on the picture alone: the references show every turtle facing
\* left, a picture facing left verifies above the threshold and one facing
\* right below it; a file that is not there gives no candidates.
PassOver(picture) ==
    IF picture = NoPicture THEN <<>>
    ELSE <<[site_id |-> picture.turtle, is_mirrored |-> FALSE,
            spatial_score |-> IF picture.facing = "left"
                              THEN MATCH_CONFIDENCE_THRESHOLD + 5 ELSE 3]>>

\* search_for_matches over a picture nobody else touches.
search_alone(picture) ==
    LET results_normal == PassOver(picture)
        results_mirror == PassOver(Flip(picture))
    IN  IF MeetsThreshold(BestScore(results_normal)) THEN FirstFive(results_normal)
        ELSE IF MirrorWins(BestScore(results_mirror), BestScore(results_normal))
        THEN FirstFive(MarkMirrored(results_mirror))
        ELSE FirstFive(results_normal)

\* Another thread wrote the mirror file this thread is about to touch.
OfOther(file, t) == file.owner # 0 /\ file.owner # t

\* filename = secure_filename(file.filename); file.save(temp_path)
UploadSave(t, filename, picture) ==
    /\ request_threads[t].pc = "idle"
    /\ upload_folder' = [upload_folder EXCEPT ![filename] = picture]
    /\ request_threads' = [request_threads EXCEPT ![t] =
           [NoRequestThread EXCEPT !.pc = "normal", !.filename = filename,
                                   !.picture = picture]]
    /\ UNCHANGED mirror_files
    /\ OutsideMirror

\* The normal pass and the threshold check.
NormalPass(t) ==
    /\ request_threads[t].pc = "normal"
    /\ LET results_normal == PassOver(upload_folder[request_threads[t].filename])
       IN  request_threads' = [request_threads EXCEPT ![t] =
               IF MeetsThreshold(BestScore(results_normal))
               THEN [@ EXCEPT !.pc = "done", !.results_normal = results_normal,
                              !.ret = FirstFive(results_normal)]
               ELSE [@ EXCEPT !.pc = "imread", !.results_normal = results_normal]]
    /\ UNCHANGED <<upload_folder, mirror_files>>
    /\ OutsideMirror

\* img = cv.imread(query_image_path); if img is None: return results_normal[:5]
Imread(t) ==
    /\ request_threads[t].pc = "imread"
    /\ LET img == upload_folder[request_threads[t].filename]
       IN  request_threads' = [request_threads EXCEPT ![t] =
               IF img = NoPicture
               THEN [@ EXCEPT !.pc = "done", !.ret = FirstFive(@.results_normal)]
               ELSE [@ EXCEPT !.pc = "imwrite", !.img = img]]
    /\ UNCHANGED <<upload_folder, mirror_files>>
    /\ OutsideMirror

\* cv.imwrite(mirror_path, cv.flip(img, 1))
Imwrite(t) ==
    /\ request_threads[t].pc = "imwrite"
    /\ LET mirror_path == MirrorPath(request_threads[t].filename)
       IN  /\ mirror_files' = [mirror_files EXCEPT ![mirror_path] =
                  [picture |-> Flip(request_threads[t].img), owner |-> t]]
           /\ request_threads' = [request_threads EXCEPT ![t] =
                  [@ EXCEPT !.pc = "mirror",
                            !.met_other = @ \/ OfOther(mirror_files[mirror_path], t)]]
    /\ UNCHANGED upload_folder
    /\ OutsideMirror

\* The mirrored pass and the comparison.
MirrorPass(t) ==
    /\ request_threads[t].pc = "mirror"
    /\ LET file == mirror_files[MirrorPath(request_threads[t].filename)]
           results_normal == request_threads[t].results_normal
           results_mirror == PassOver(file.picture)
       IN  request_threads' = [request_threads EXCEPT ![t] =
               [@ EXCEPT !.pc = "finally",
                         !.met_other = @ \/ OfOther(file, t),
                         !.ret = IF MirrorWins(BestScore(results_mirror),
                                               BestScore(results_normal))
                                 THEN FirstFive(MarkMirrored(results_mirror))
                                 ELSE FirstFive(results_normal)]]
    /\ UNCHANGED <<upload_folder, mirror_files>>
    /\ OutsideMirror

\* finally: if os.path.exists(mirror_path): os.remove(mirror_path)
RemoveMirror(t) ==
    /\ request_threads[t].pc = "finally"
    /\ LET mirror_path == MirrorPath(request_threads[t].filename)
       IN  /\ mirror_files' = [mirror_files EXCEPT ![mirror_path] = NoMirror]
           /\ request_threads' = [request_threads EXCEPT ![t] =
                  [@ EXCEPT !.pc = "done",
                            !.met_other = @ \/ OfOther(mirror_files[mirror_path], t)]]
    /\ UNCHANGED upload_folder
    /\ OutsideMirror

(***************************************************************************)
(* SpecUploads: two admin uploads, each of any picture under either name,   *)
(* in every interleaving of their steps.                                   *)
(***************************************************************************)
InitUploads ==
    /\ upload_folder = [filename \in UploadNames |-> NoPicture]
    /\ mirror_files = [path \in {MirrorPath(f) : f \in UploadNames} |-> NoMirror]
    /\ request_threads = [t \in Threads |-> NoRequestThread]
    /\ BesidesMirrorIdle
    /\ AddIdle
    /\ RegIdle
    /\ ThreadsIdle
    /\ MemIdle
    /\ SearchIdle
    /\ StartIdle
    /\ RerankIdle
    /\ MatchIdle
    /\ RebuildIdle
    /\ FeaturesIdle

NextUploads ==
    \E t \in Threads :
        \/ \E filename \in UploadNames, picture \in Pictures :
               UploadSave(t, filename, picture)
        \/ NormalPass(t)
        \/ Imread(t)
        \/ Imwrite(t)
        \/ MirrorPass(t)
        \/ RemoveMirror(t)

SpecUploads == InitUploads /\ [][NextUploads]_vars

(***************************************************************************)
(* The start of the server (backend/app.py): initialize_manager runs on a  *)
(* background thread while the request threads already serve /api/upload.  *)
(* manager_ready.wait(timeout=30) answers True as soon as the event is set *)
(* and False when the 30 seconds pass without it.                          *)
(***************************************************************************)
Constructed == "TurtleManager"

\* manager = TurtleManager(): the constructor returns or raises.
InitializeManagerConstruct(raises) ==
    /\ manager_thread = "started"
    /\ IF raises
       THEN manager_thread' = "except" /\ UNCHANGED manager
       ELSE manager_thread' = "constructed" /\ manager' = Constructed
    /\ UNCHANGED <<manager_ready, upload_requests>>
    /\ OutsideBoot

\* manager_ready.set(), after the construction or inside the except clause
InitializeManagerSetReady ==
    /\ manager_thread \in {"constructed", "except"}
    /\ manager_ready' = TRUE
    /\ manager_thread' = IF manager_thread = "constructed" THEN "finished" ELSE "failed"
    /\ UNCHANGED <<manager, upload_requests>>
    /\ OutsideBoot

\* A request arrives; role is the role of its token, allowed whether it passes
\* the tests of the file (present, named, allowed type, not too large, saved).
UploadArrives(t, role, allowed) ==
    /\ upload_requests[t].pc = "idle"
    /\ upload_requests' = [upload_requests EXCEPT ![t] =
           [NoUploadRequest EXCEPT !.pc = "wait", !.role = role, !.allowed = allowed]]
    /\ UNCHANGED <<manager, manager_ready, manager_thread>>
    /\ OutsideBoot

\* if not manager_ready.wait(timeout=30): return ..., 503
UploadWait(t) ==
    /\ upload_requests[t].pc = "wait"
    /\ upload_requests' = [upload_requests EXCEPT ![t] =
           IF manager_ready
           THEN [@ EXCEPT !.pc = "test", !.ready_seen = TRUE]
           ELSE [@ EXCEPT !.pc = "answered", !.status = 503]]
    /\ UNCHANGED <<manager, manager_ready, manager_thread>>
    /\ OutsideBoot

\* A plausible slip: the test of the manager is left out.
ManagerMissingUnchecked(m) == FALSE

\* manager is None
ManagerMissing(m) == m = None

\* if manager is None: return ..., 500
UploadTestManager(t) ==
    /\ upload_requests[t].pc = "test"
    /\ upload_requests' = [upload_requests EXCEPT ![t] =
           IF ManagerMissing(manager)
           THEN [@ EXCEPT !.pc = "answered", !.manager_seen = manager, !.status = 500]
           ELSE [@ EXCEPT !.pc = "file", !.manager_seen = manager]]
    /\ UNCHANGED <<manager, manager_ready, manager_thread>>
    /\ OutsideBoot

\* The rest of the handler: 400 for a file that fails a test, otherwise the
\* call of manager.search_for_matches (admin) or manager.create_review_packet;
\* an exception of the call is answered 500 by the except clause.
UploadHandle(t) ==
    /\ upload_requests[t].pc = "file"
    /\ upload_requests' = [upload_requests EXCEPT ![t] =
           IF ~@.allowed THEN [@ EXCEPT !.pc = "answered", !.status = 400]
           ELSE [@ EXCEPT !.pc = "answered",
                          !.called = IF upload_requests[t].role = "admin"
                                     THEN "search_for_matches"
                                     ELSE "create_review_packet",
                          !.status = IF manager = None THEN 500 ELSE 200]]
    /\ UNCHANGED <<manager, manager_ready, manager_thread>>
    /\ OutsideBoot

(***************************************************************************)
(* SpecBoot: the initialize_manager thread and two upload requests in      *)
(* every interleaving.                                                     *)
(***************************************************************************)
Roles == {"admin", "community"}

InitBoot ==
    /\ manager = None
    /\ manager_ready = FALSE
    /\ manager_thread = "started"
    /\ upload_requests = [t \in Threads |-> NoUploadRequest]
    /\ BesidesBootIdle
    /\ AddIdle
    /\ RegIdle
    /\ ThreadsIdle
    /\ MemIdle
    /\ SearchIdle
    /\ StartIdle
    /\ RerankIdle
    /\ MatchIdle
    /\ RebuildIdle
    /\ FeaturesIdle

NextBoot ==
    \/ \E raises \in BOOLEAN : InitializeManagerConstruct(raises)
    \/ InitializeManagerSetReady
    \/ \E t \in Threads :
        \/ \E role \in Roles, allowed \in BOOLEAN : UploadArrives(t, role, allowed)
        \/ UploadWait(t)
        \/ UploadTestManager(t)
        \/ UploadHandle(t)

SpecBoot == InitBoot /\ [][NextBoot]_vars

(***************************************************************************)
(* SpecAdd: add_new_turtle_image_to_index applied to an index built by     *)
(* initialize_faiss_index from any small database.                         *)
(***************************************************************************)
SmallDatabases ==
    {<<>>} \cup {<<a>> : a \in Vecs} \cup {<<a, b>> : a \in Vecs, b \in Vecs}

InitAdd ==
    /\ faiss_index \in {initialize_faiss_index(db) : db \in SmallDatabases}
    /\ lastAdd = NoAdd
    /\ RegIdle
    /\ ThreadsIdle
    /\ StartIdle
    /\ RerankIdle
    /\ MatchIdle
    /\ RebuildIdle
    /\ FeaturesIdle
    /\ RestIdle
    /\ MemIdle
    /\ SearchIdle

AddNewTurtleImageToIndex(v) ==
    /\ Len(faiss_index) < MaxIndexSize
    /\ LET r == add_new_turtle_image_to_index(faiss_index, v)
       IN  /\ faiss_index' = r.index
           /\ lastAdd' = [called |-> TRUE, before |-> faiss_index, vec |-> v,
                       ret |-> r.ret]
    /\ OutsideAdd

NextAdd == \E v \in Vecs : AddNewTurtleImageToIndex(v)

SpecAdd == InitAdd /\ [][NextAdd]_vars

(***************************************************************************)
(* C1: add_new_turtle_image_to_index returns False and leaves the index    *)
(* size unchanged exactly when some existing entry (hence the nearest one) *)
(* lies at squared distance below the duplicate epsilon; in every other    *)
(* case, the empty index included, it returns True and the index grows by  *)
(* exactly one entry, the new vector at the last position.                 *)
(***************************************************************************)
HasNearEntry(index, v) == \E i \in 1 .. Len(index) : SqDist(index[i], v) < DupEps

C1_DuplicateRejectedElseAppended ==
    lastAdd.called =>
        IF HasNearEntry(lastAdd.before, lastAdd.vec)
        THEN lastAdd.ret = FALSE /\ faiss_index = lastAdd.before
        ELSE /\ lastAdd.ret = TRUE
             /\ Len(faiss_index) = Len(lastAdd.before) + 1
             /\ faiss_index = Append(lastAdd.before, lastAdd.vec)

\* A vector rejected although no entry equals it: it is merely nearer than
\* the duplicate epsilon to one of them.
C1_Witness_Rejected ==
    /\ lastAdd.called
    /\ lastAdd.ret = FALSE
    /\ \A i \in 1 .. Len(lastAdd.before) : lastAdd.before[i] # lastAdd.vec
    /\ Len(faiss_index) = Len(lastAdd.before)

(***************************************************************************)
(* C2: after any sequence of register_new_site_from_upload and             *)
(* register_new_turtle calls the index holds as many vectors as the        *)
(* metadata holds records, and record i carries original_index i, also     *)
(* after a call whose vector the index rejected as a duplicate.            *)
(***************************************************************************)
C2_IndexMetadataLockstep ==
    /\ Len(disk.index.vecs) = Len(disk.metadata.recs)
    /\ \A i \in 1 .. Len(disk.metadata.recs) :
            disk.metadata.recs[i].original_index = i - 1

(***************************************************************************)
(* C3: without a location filter smart_search returns at most k_results    *)
(* candidates, no two of them with the same site_id, in non-decreasing     *)
(* order of distance, and each candidate is the nearest neighbour of its   *)
(* site_id: it is an entry of the index with that site_id, and no entry    *)
(* with that site_id lies nearer to the query.                             *)
(***************************************************************************)
Described(index, metadata) ==
    {p \in Positions(index) : p < Len(metadata)}

C3_DiverseNearestPerSite ==
    lastSearch.called =>
        LET items == lastSearch.items
            q == ImageVec(lastSearch.img)
            index == mem.index.vecs
            metadata == mem.metadata.recs
            OfSite(site) == {p \in Described(index, metadata) :
                                metadata[p + 1].site_id = site}
        IN  /\ Len(items) <= lastSearch.k
            /\ \A i, j \in 1 .. Len(items) :
                    i # j => items[i].site_id # items[j].site_id
            /\ \A i, j \in 1 .. Len(items) :
                    i < j => items[i].distance <= items[j].distance
            /\ \A i \in 1 .. Len(items) :
                    /\ \E p \in OfSite(items[i].site_id) :
                            /\ SqDist(index[p + 1], q) = items[i].distance
                            /\ metadata[p + 1].filename = items[i].filename
                    /\ \A p \in OfSite(items[i].site_id) :
                            items[i].distance <= SqDist(index[p + 1], q)

\* A full answer in which a second, farther neighbour of the first site was
\* passed over for a still farther neighbour of another site.
C3_Witness_SiteCollapsed ==
    /\ lastSearch.called
    /\ lastSearch.k = 2
    /\ Len(lastSearch.items) = 2
    /\ \E p \in Described(mem.index.vecs, mem.metadata.recs) :
            LET d == SqDist(mem.index.vecs[p + 1], ImageVec(lastSearch.img))
            IN  /\ mem.metadata.recs[p + 1].site_id = lastSearch.items[1].site_id
                /\ lastSearch.items[1].distance < d
                /\ d < lastSearch.items[2].distance

(***************************************************************************)
(* C4: of two registration calls in flight at the same time with the same  *)
(* vector at most one adds it, and the persisted index never holds two     *)
(* entries at distance below the duplicate epsilon.                        *)
(***************************************************************************)
PastAdd(t) == pc[t] \in {"dump_metadata", "write_index"}

NoTwoNear(index) ==
    \A i, j \in 1 .. Len(index) : i # j => SqDist(index[i], index[j]) >= DupEps

C4_InsertsSerialized ==
    /\ \A t1, t2 \in Threads :
            (/\ t1 # t2
             /\ PastAdd(t1) /\ PastAdd(t2)
             /\ ImageVec(local[t1].img) = ImageVec(local[t2].img))
            => ~(local[t1].added /\ local[t2].added)
    /\ NoTwoNear(disk.index.vecs)

(***************************************************************************)
(* C5: when the best spatial_score among the results of the normal pass is *)
(* at or above the confidence threshold, search_for_matches returns the    *)
(* normal results (their first five) and runs nothing on a mirrored copy:  *)
(* no mirrored image is written, smart_search and the verifier are called  *)
(* once each.                                                              *)
(***************************************************************************)
TopScore(results) ==
    IF results = <<>> THEN 0
    ELSE CHOOSE v \in {Score(results[i]) : i \in 1 .. Len(results)} :
            \A i \in 1 .. Len(results) : v >= Score(results[i])

LeadingFive(results) ==
    [i \in 1 .. (IF Len(results) < 5 THEN Len(results) ELSE 5) |-> results[i]]

C5_ConfidentMatchSkipsMirror ==
    (lastMatch.called /\ TopScore(lastMatch.results_normal) >= 15) =>
        /\ lastMatch.ret = LeadingFive(lastMatch.results_normal)
        /\ lastMatch.searches = 1
        /\ lastMatch.reranks = 1
        /\ ~lastMatch.mirror_written
        /\ lastMatch.results_mirror = <<>>

\* The best normal score is exactly the threshold.
C5_Witness_AtThreshold ==
    /\ lastMatch.called
    /\ TopScore(lastMatch.results_normal) = 15
    /\ Len(lastMatch.ret) = 2
    /\ lastMatch.searches = 1

(***************************************************************************)
(* C6: when the mirrored pass runs, search_for_matches returns (the first  *)
(* five of) the mirrored results if their best spatial_score is strictly   *)
(* higher than the best normal one and (the first five of) the normal      *)
(* results otherwise, a tie included; every returned candidate carries     *)
(* is_mirrored = True in the first case and none does in the second.       *)
(***************************************************************************)
C6_BetterOrientationReturned ==
    (lastMatch.called /\ lastMatch.mirror_written) =>
        IF TopScore(lastMatch.results_mirror) > TopScore(lastMatch.results_normal)
        THEN /\ Len(lastMatch.ret) = Len(LeadingFive(lastMatch.results_mirror))
             /\ \A i \in 1 .. Len(lastMatch.ret) :
                    /\ lastMatch.ret[i].is_mirrored
                    /\ lastMatch.ret[i] =
                         [lastMatch.results_mirror[i] EXCEPT !.is_mirrored = TRUE]
        ELSE /\ lastMatch.ret = LeadingFive(lastMatch.results_normal)
             /\ \A i \in 1 .. Len(lastMatch.ret) : ~lastMatch.ret[i].is_mirrored

\* The mirrored pass wins and its list is longer than what is returned.
C6_Witness_MirrorWins ==
    /\ lastMatch.called
    /\ lastMatch.mirror_written
    /\ TopScore(lastMatch.results_mirror) > TopScore(lastMatch.results_normal)
    /\ Len(lastMatch.results_mirror) > 5
    /\ Len(lastMatch.ret) = 5
    /\ lastMatch.ret[1].is_mirrored

(***************************************************************************)
(* C7: the list rerank_results_with_spatial_verification returns is in     *)
(* non-increasing order of spatial_score (an absent score counting as 0),  *)
(* no candidate of score 0 or without a score stands before a candidate of *)
(* positive score, and element 0 carries the largest score of the list.    *)
(***************************************************************************)
C7_RerankSortedBestFirst ==
    lastRerank.called =>
        LET ret == lastRerank.ret
        IN  /\ \A i, j \in 1 .. Len(ret) : i < j => Score(ret[i]) >= Score(ret[j])
            /\ \A i, j \in 1 .. Len(ret) :
                    (Score(ret[i]) = 0 /\ Score(ret[j]) > 0) => j < i
            /\ \A i \in 1 .. Len(ret) : Score(ret[1]) >= Score(ret[i])

\* The nearest candidate was skipped and kept without a score; a farther one
\* verified with a positive score now stands before it.
C7_Witness_SkippedBehindVerified ==
    /\ lastRerank.called
    /\ lastRerank.query_described
    /\ Len(lastRerank.ret) = 3
    /\ lastRerank.outcomes[1] = Skipped
    /\ lastRerank.ret[1].spatial_score > 0
    /\ \E i \in 2 .. 3 :
            /\ lastRerank.ret[i].site_id = lastRerank.initial_results[1].site_id
            /\ lastRerank.ret[i].spatial_score = NoScore

(***************************************************************************)
(* C8: when the query yields no descriptors the verifier returns the       *)
(* candidate list it was given, same candidates, same order, no score      *)
(* attached; when the list is empty it returns the empty list and does not *)
(* extract the query's features.                                           *)
(***************************************************************************)
C8_RerankFailsOpen ==
    lastRerank.called =>
        /\ lastRerank.initial_results = <<>> =>
                lastRerank.ret = <<>> /\ lastRerank.extractions = 0
        /\ (lastRerank.initial_results # <<>> /\ ~lastRerank.query_described) =>
                /\ lastRerank.ret = lastRerank.initial_results
                /\ \A i \in 1 .. Len(lastRerank.ret) :
                        lastRerank.ret[i].spatial_score = NoScore

C8_Witness_QueryUndescribed ==
    /\ lastRerank.called
    /\ ~lastRerank.query_described
    /\ Len(lastRerank.initial_results) = 2
    /\ lastRerank.ret = lastRerank.initial_results
    /\ lastRerank.extractions = 1

(***************************************************************************)
(* C9: a process start that finds the vocabulary, the index or the         *)
(* metadata missing runs the rebuild over the data directory, and a search *)
(* that returns candidates runs on a vocabulary, an index and metadata     *)
(* that were all loaded and belong together: the index was encoded with    *)
(* the loaded vocabulary and written by the build that wrote the metadata. *)
(***************************************************************************)
LoadedFromOneBuild(m) ==
    /\ m.vocab.exists /\ m.index.exists /\ m.metadata.exists
    /\ m.index.enc = m.vocab.gen
    /\ m.index.gen = m.metadata.gen

C9_MissingArtifactForcesRebuild ==
    /\ (lastStartup.called /\ lastStartup.missing) => lastStartup.rebuilt
    /\ (lastSearch.called /\ lastSearch.items # <<>>) => LoadedFromOneBuild(mem)

(***************************************************************************)
(* C10: compute_vlad is never given a vocabulary without fitted centroids, *)
(* neither by a search nor by a rebuild, and a process start never leaves  *)
(* an unfitted vocabulary loaded without having run the retraining.        *)
(***************************************************************************)
C10_UnfittedVocabularyNeverEncodes ==
    /\ lastSearch.called => lastSearch.encoded # "unfitted"
    /\ lastStartup.called => lastStartup.encoded # "unfitted"
    /\ (lastStartup.called /\ mem.vocab.exists /\ ~mem.vocab.fitted) =>
            lastStartup.rebuilt

\* C11: whatever a loader finds on disk at any instant -- between the file
\* writes of a rebuild and after a kill between them included -- is matched:
\* index and metadata hold the same number of entries and come from one
\* build, and the index vectors were encoded with the vocabulary on disk.
MatchedTriple(d) ==
    /\ (d.index.exists /\ d.metadata.exists) =>
            /\ Len(d.index.vecs) = Len(d.metadata.recs)
            /\ d.index.gen = d.metadata.gen
    /\ (d.index.exists /\ d.vocab.exists) => d.index.enc = d.vocab.gen

C11_PersistedTripleAlwaysMatched == MatchedTriple(disk)

\* C12: once a registration has returned success, the record it wrote and the
\* vector of its image are in the metadata list and the index that smart_search
\* of the same process reads (GLOBAL_RESOURCES).
InLiveResources(img) ==
    /\ \E i \in 1 .. Len(mem.metadata.recs) :
            mem.metadata.recs[i].filename = <<"img", img>>
    /\ \E p \in 1 .. Len(mem.index.vecs) : mem.index.vecs[p] = ImageVec(img)

C12_RegisteredIsLive ==
    (lastReg.called /\ lastReg.ok) => InLiveResources(lastReg.img)

\* C13: a record that got its site_id from a registration keeps it through
\* every later step that leaves a metadata file (registration, restart,
\* regeneration after a missing artifact), and no step runs the DBSCAN
\* labelling of generate_clustering_and_index while the metadata on disk holds
\* registered identities.
Registered(rec) == rec.filename[1] = "img"

KeepsConfirmedSiteIds ==
    \A i \in 1 .. Len(disk.metadata.recs) :
        Registered(disk.metadata.recs[i]) =>
            /\ i <= Len(disk'.metadata.recs)
            /\ disk'.metadata.recs[i].filename = disk.metadata.recs[i].filename
            /\ disk'.metadata.recs[i].site_id = disk.metadata.recs[i].site_id

DbscanRun == builds' # builds /\ disk'.metadata.gen = builds'

C13_ConfirmedSiteIdImmutable ==
    [][/\ disk'.metadata.exists => KeepsConfirmedSiteIds
       /\ DbscanRun =>
            \A i \in 1 .. Len(disk.metadata.recs) : ~Registered(disk.metadata.recs[i])]_vars

\* C14: a global smart_search that processed its query answers fewer than
\* k_results candidates only when the indexed corpus (the index positions that
\* have a metadata record) holds fewer than k_results distinct site_ids.
IndexedSites(m) ==
    {m.metadata.recs[p + 1].site_id :
        p \in {q \in Positions(m.index.vecs) : q < Len(m.metadata.recs)}}

C14_FewerThanKOnlyWhenExhausted ==
    (/\ lastSearch.called
     /\ lastSearch.error = NoError
     /\ SiftSucceeds(lastSearch.img)
     /\ Len(lastSearch.items) < lastSearch.k)
        => Cardinality(IndexedSites(mem)) < lastSearch.k

\* What a smart_search call with a location filter handed back, entry by
\* entry: the metadata records of the positions (backend version) or of the
\* candidates (turtles version).
FilteredCall ==
    /\ lastSearch.called
    /\ lastSearch.version \in {"backend", "turtles"}
    /\ lastSearch.location_filter # NoKey
    /\ lastSearch.error = NoError

ReturnedRecords ==
    IF lastSearch.version = "backend"
    THEN [i \in 1 .. Len(lastSearch.positions) |->
            mem.metadata.recs[lastSearch.positions[i].idx + 1]]
    ELSE [i \in 1 .. Len(lastSearch.items) |->
            [site_id |-> lastSearch.items[i].site_id,
             location |-> lastSearch.items[i].location]]

\* C15: a smart_search with a location filter answers at most k_results
\* entries, and no two of them belong to the same site_id.
C15_FilteredResultsDistinctSites ==
    FilteredCall =>
        /\ Len(ReturnedRecords) <= lastSearch.k
        /\ \A i, j \in 1 .. Len(ReturnedRecords) :
                i # j => ReturnedRecords[i].site_id # ReturnedRecords[j].site_id

\* C16: every entry a smart_search with a location filter answers is a record
\* whose location equals the filter.
C16_FilteredResultsAtLocation ==
    FilteredCall =>
        \A i \in 1 .. Len(ReturnedRecords) :
            ReturnedRecords[i].location = lastSearch.location_filter

\* C17: a location-filtered search over an empty subset -- smart_search of
\* backend/image_processing.py with loaded resources, a processed query and no
\* metadata record at the location, or filtered_faiss_search handed zero
\* subset vectors -- answers nothing, raises nothing and runs no index search.
EmptySubsetCall ==
    /\ lastSearch.called
    /\ \/ /\ lastSearch.version = "backend"
          /\ lastSearch.location_filter # NoKey
          /\ mem.vocab.exists /\ mem.index.exists /\ mem.metadata.recs # <<>>
          /\ SiftSucceeds(lastSearch.img)
          /\ TargetIndices(mem.metadata.recs, lastSearch.location_filter) = <<>>
       \/ /\ lastSearch.version = "filtered_faiss_search"
          /\ lastSearch.subset_indices = <<>>

C18_UnreadableQueryIsAnError ==
    /\ (lastSearch.called /\ ~Readable(lastSearch.img)) => lastSearch.error # NoError
    /\ (lastMatch.called /\ ~Readable(lastMatch.img)) => lastMatch.ret # <<>>

\* C19: for every non-empty descriptor set and fitted vocabulary the vector
\* compute_vlad returns has L2 norm 1.0 within 1e-3.
C19_VladHasUnitNorm ==
    (lastVlad.called /\ lastVlad.descriptors # <<>>) =>
        /\ ~lastVlad.nan
        /\ Abs(L2Norm(lastVlad.vlad) - UnitScale) <= UnitScale \div 1000

\* The call of process_image_through_SIFT that must fail: the image cannot
\* be read, or the detector finds no descriptors in it.
SiftMustFail ==
    /\ lastSift.called
    /\ SiftUnreadable(lastSift.image) \/ DetectAndCompute(lastSift.image) = 0

\* (True, descriptors) is returned only with the descriptor file on the disk.
TrueOnlyAfterWritten ==
    (lastSift.called /\ lastSift.ok) =>
        /\ ~lastSift.none
        /\ lastSift.descriptors = DetectAndCompute(lastSift.image)
        /\ lastSift.descriptors > 0
        /\ npz_files[SavezPath(lastSift.output_path)]
               = DescriptorFile(lastSift.descriptors)

\* C20: process_image_through_SIFT returns (False, None) and writes nothing
\* -- every descriptor file is as it was before the call -- whenever the image
\* is unreadable or the detector finds zero descriptors; it returns
\* (True, descriptors) only after a descriptor file containing keypoints and
\* descriptors has been written.
C20_SiftFailureWritesNothing ==
    /\ SiftMustFail =>
           /\ ~lastSift.ok
           /\ lastSift.none
           /\ npz_files = lastSift.before
    /\ TrueOnlyAfterWritten

\* A call for an unreadable image whose output path holds the descriptor file
\* of an earlier call.
C20_Witness_FailsOverEarlierFile ==
    /\ lastSift.called
    /\ SiftUnreadable(lastSift.image)
    /\ lastSift.before[lastSift.output_path].exists
    /\ ~lastSift.ok

\* C20 as stated: after a call for an unreadable image or an image without
\* descriptors there is no descriptor file at the output path.
C20_SiftFailureLeavesNoFile ==
    /\ SiftMustFail =>
           /\ ~lastSift.ok
           /\ lastSift.none
           /\ ~npz_files[lastSift.output_path].exists
    /\ TrueOnlyAfterWritten

\* The call of approve_review_packet for an existing turtle that succeeded.
ApprovedForTurtle ==
    /\ lastReview.called
    /\ lastReview.op = "approve_review_packet"
    /\ lastReview.match_turtle_id \in DOMAIN loose_images
    /\ lastReview.ok

\* C21: approve_review_packet called with match_turtle_id set adds the
\* packet's query image to that turtle's loose_images folder before the packet
\* folder is deleted, so an approved upload is never lost.
C21_ApprovedImageKept ==
    ApprovedForTurtle =>
        \E o \in loose_images[lastReview.match_turtle_id] :
            o.upload = PacketAt(lastReview.before, lastReview.request_id).upload

\* The uploads that were put into the queue and not approved since.
PendingUploads == {n \in 1 .. Len(uploads) : ~uploads[n].approved}

\* An approve call for a request id that has no packet.
ApproveOfUnknown ==
    /\ lastReview.called
    /\ lastReview.op = "approve_review_packet"
    /\ lastReview.request_id \notin PacketDirs(lastReview.before)

\* C22: after any sequence of create_review_packet and approve_review_packet
\* calls and restarts, get_review_queue lists exactly one entry for each
\* packet created and not yet approved, distinct uploads being distinct
\* entries; an approved or unknown request id is not listed, and approving an
\* unknown id returns (False, "Request not found") and changes nothing.
C22_QueueListsPendingUploads ==
    /\ get_review_queue(review_queue)
           = {uploads[n].request_id : n \in PendingUploads}
    /\ Cardinality(get_review_queue(review_queue)) = Cardinality(PendingUploads)
    /\ ApproveOfUnknown =>
           /\ ~lastReview.ok
           /\ lastReview.message = "Request not found"
           /\ review_queue = lastReview.before

\* C23: for a fixed location folder and turtle id, the first
\* _process_single_turtle call whose extraction succeeds returns "created",
\* and every later call returns "skipped" and leaves the stored reference
\* image and descriptor file unchanged.
C23_CreatedOnceThenSkipped ==
    \A n \in 1 .. Len(processed) :
        /\ processed[n].success => processed[n].status = "created"
        /\ \A m \in 1 .. (n - 1) :
               processed[m].status = "created" =>
                   /\ processed[n].status = "skipped"
                   /\ ~processed[n].changed

\* A second image of the turtle arrives after the first one was processed.
C23_Witness_SecondImageSkipped ==
    /\ Len(processed) >= 2
    /\ processed[1].status = "created"
    /\ processed[2].status = "skipped"
    /\ processed[2].source # processed[1].source
    /\ ref_data.images[ExtOf(processed[2].source)] # processed[2].source

\* The positions of the files train_vocabulary_incremental could load.
LoadedPositions ==
    {j \in 0 .. (Len(train.all_npz_files) - 1) : Loaded(train.all_npz_files[j + 1])}

\* How many partial_fit batches hold position j.
TimesFitted(j) ==
    SumSeq([b \in 1 .. Len(train.fits) |->
               Cardinality({x \in 1 .. Len(train.fits[b]) : train.fits[b][x] = j})])

\* C24: when train_vocabulary_incremental finishes, every file with a
\* readable, non-empty descriptor array has been in exactly one partial_fit
\* batch (the last, partly filled one included), every unreadable or empty
\* file in none, and the batch is empty; the batch never holds more than
\* batch_size files.
C24_EveryGoodFileFittedOnce ==
    /\ train.pc # "idle" =>
           Len(train.current_batch_descriptors) <= train.batch_size
    /\ train.pc = "done" =>
           /\ train.current_batch_descriptors = <<>>
           /\ \A j \in 0 .. (Len(train.all_npz_files) - 1) :
                  TimesFitted(j) = IF j \in LoadedPositions THEN 1 ELSE 0

\* Training finished over a list with an unreadable file in front of a good
\* one, and the only batch was flushed before it was full.
C24_Witness_BadFileThenPartialBatch ==
    /\ train.pc = "done"
    /\ Len(train.all_npz_files) = 2
    /\ train.all_npz_files[1].kind = "unreadable"
    /\ train.batch_size = 2
    /\ train.fits = << <<1>> >>

\* A ceiling that one image of the model exceeds.
PerImageCeiling == MaxDescriptors - 1

\* The positions of the files that were put into a batch so far.
BatchedPositions ==
    {train.current_batch_descriptors[x] : x \in 1 .. Len(train.current_batch_descriptors)}
        \cup UNION {{train.fits[b][x] : x \in 1 .. Len(train.fits[b])} :
                       b \in 1 .. Len(train.fits)}

\* C25: the descriptor rows one image contributes never exceed a fixed
\* per-image ceiling, neither in a training batch nor when the image is
\* encoded into a VLAD vector.
C25_RowsPerImageBounded ==
    /\ \A j \in BatchedPositions :
           Contributed(train.all_npz_files[j + 1]) <= PerImageCeiling
    /\ lastVlad.called => Len(lastVlad.descriptors) <= PerImageCeiling

\* The centroids no descriptor of the last compute_vlad call was assigned to.
EmptyCentroids ==
    {i \in 1 .. Len(lastVlad.centers) :
        \A n \in 1 .. Len(lastVlad.descriptors) :
            Predict(lastVlad.descriptors[n], lastVlad.centers) # i}

\* Block i of the returned vector: entries i*D .. i*D + D - 1, counted from 0.
BlockOf(vlad, i, width) == [d \in 1 .. width |-> vlad[(i - 1) * width + d]]

\* The returned vector has K x D entries.
VladLengthIsKTimesD ==
    lastVlad.called =>
        Len(lastVlad.vlad) = Len(lastVlad.centers) * Width(lastVlad.centers)

\* Block i carries the residual sum of centroid i, as normalised: an entry is
\* zero where the residual sum is zero and has its sign elsewhere.
BlocksCarryResidualSums ==
    lastVlad.called =>
        \A i \in 1 .. Len(lastVlad.centers) :
            \A d \in 1 .. Width(lastVlad.centers) :
                LET sum == ResidualSums(lastVlad.descriptors, lastVlad.centers)[i][d]
                    entry == BlockOf(lastVlad.vlad, i, Width(lastVlad.centers))[d]
                IN  /\ entry # NaN
                    /\ Sign(entry) = Sign(sum)

\* The block of a centroid without descriptors is all zeros.
EmptyCentroidBlocksAreZero ==
    lastVlad.called =>
        \A i \in EmptyCentroids :
            \A d \in 1 .. Width(lastVlad.centers) :
                BlockOf(lastVlad.vlad, i, Width(lastVlad.centers))[d] = 0

\* C26: for K centroids and descriptors of width D, compute_vlad returns a
\* vector of exactly K x D entries for every non-empty descriptor set, block i
\* of it is the residual sum of the descriptors assigned to centroid i, and
\* the block of a centroid without descriptors is all zeros.
C26_VladBlockLayout ==
    (lastVlad.called /\ lastVlad.descriptors # <<>>) =>
        /\ VladLengthIsKTimesD
        /\ BlocksCarryResidualSums
        /\ EmptyCentroidBlocksAreZero

\* What holds of every call whose residuals are not all zero.
VladBlockLayoutUnlessNan ==
    (lastVlad.called /\ ~lastVlad.nan) =>
        /\ VladLengthIsKTimesD
        /\ BlocksCarryResidualSums
        /\ EmptyCentroidBlocksAreZero

\* The threads whose request was answered.
Answered == {t \in Threads : request_threads[t].pc = "done"}

\* Two uploads under different names.
DistinctNames ==
    \A t \in Threads : \A u \in Threads \ {t} :
        \/ request_threads[t].filename # request_threads[u].filename
        \/ request_threads[u].pc = "idle"

\* C27: under any interleaving of two concurrent search_for_matches calls,
\* two uploads of one file name included, each call returns what it returns
\* when run alone and neither reads, overwrites or deletes the mirror file of
\* the other.
C27_SearchesDoNotInterfere ==
    \A t \in Answered :
        /\ request_threads[t].ret = search_alone(request_threads[t].picture)
        /\ ~request_threads[t].met_other

\* What holds of uploads under different names.
DistinctNamesDoNotInterfere ==
    DistinctNames =>
        \A t \in Answered :
            /\ request_threads[t].ret = search_alone(request_threads[t].picture)
            /\ ~request_threads[t].met_other


\* A call of filtered_faiss_search on its own that answered.
FilteredFaissCall ==
    /\ lastSearch.called
    /\ lastSearch.version = "filtered_faiss_search"
    /\ lastSearch.error = NoError

\* The smaller of n_results and the number of subset vectors.
SubsetCeiling ==
    IF lastSearch.k < Len(lastSearch.subset_indices)
    THEN lastSearch.k ELSE Len(lastSearch.subset_indices)

\* C28: filtered_faiss_search returns at most min(n_results, number of subset
\* vectors) positions, each of them a member of subset_indices, none of them
\* twice and none at a distance below 1e-6, also when n_results is larger than
\* the subset and the search pads its answer with -1 positions.
C28_FilteredPositionsFromSubset ==
    FilteredFaissCall =>
        /\ Len(lastSearch.positions) <= SubsetCeiling
        /\ \A i \in 1 .. Len(lastSearch.positions) :
              /\ \E s \in 1 .. Len(lastSearch.subset_indices) :
                    lastSearch.subset_indices[s] = lastSearch.positions[i].idx
              /\ ~(lastSearch.positions[i].distance < QueryEps)
        /\ \A i, j \in 1 .. Len(lastSearch.positions) :
              i # j => lastSearch.positions[i].idx # lastSearch.positions[j].idx

\* What holds of the calls whose subset holds at least n_results vectors.
FilteredPositionsWithoutPadding ==
    (FilteredFaissCall /\ lastSearch.k <= Len(lastSearch.subset_indices)) =>
        C28_FilteredPositionsFromSubset


\* The vector array has one row per metadata record.
OneRowPerRecord(m) == Len(m.vlad_array.rows) = Len(m.metadata.recs)

\* Every position a location filter selects from the metadata is a row.
FilterSelectsRows(m) ==
    \A location_filter \in {m.metadata.recs[i].location : i \in 1 .. Len(m.metadata.recs)} :
        LET target_indices == TargetIndices(m.metadata.recs, location_filter)
        IN  \A i \in 1 .. Len(target_indices) :
                target_indices[i] < Len(m.vlad_array.rows)

\* C29: after any sequence of rebuilds, registrations and restarts the vector
\* array the location-filtered search uses has exactly one row per metadata
\* record, so every position a location filter selects is a row of the array.
C29_VladArrayRowPerRecord ==
    lastStartup.called =>
        /\ OneRowPerRecord(mem)
        /\ FilterSelectsRows(mem)

\* What holds of a process that started with a rebuild over descriptor
\* files, until it restarts.
RowPerRecordAfterRebuild ==
    (lastStartup.called /\ lastStartup.rebuilt /\ lastStartup.encoded = "fitted") =>
        /\ OneRowPerRecord(mem)
        /\ FilterSelectsRows(mem)


\* initialize_manager has constructed the manager.
ManagerConstructed ==
    /\ manager_thread \in {"constructed", "finished"}
    /\ manager = Constructed

\* C30: an /api/upload request calls a TurtleManager method only after the
\* initialize_manager thread has constructed the manager; it answers 503 only
\* when the wait ended without manager_ready set, and 500 without any call
\* whenever it found manager_ready set and the manager still None.
C30_UploadGuardsManager ==
    \A t \in Threads :
        LET r == upload_requests[t]
        IN  /\ r.called # "" => ManagerConstructed
            /\ r.status = 503 => ~r.ready_seen /\ r.called = ""
            /\ (r.ready_seen /\ r.manager_seen = None /\ r.pc = "answered") =>
                    r.status = 500 /\ r.called = ""

\* One request timed out while the manager was under construction and the
\* other one, arriving later, reached the manager.
C30_Witness_TimeoutThenServed ==
    \E t \in Threads : \E u \in Threads :
        /\ upload_requests[t].status = 503
        /\ upload_requests[u].called # ""
        /\ upload_requests[u].status = 200

\* A request after a failed initialization is answered 500.
FailedInitAnswered ==
    \E t \in Threads :
        /\ manager_thread = "failed"
        /\ upload_requests[t].status = 500

====
